---- MODULE Spec2Model ----
(***************************************************************************)
(* TinyMvn: a Node.js server that stores uploaded / GitHub-sourced Java     *)
(* projects as directories under a projects root and re-serves them as a    *)
(* Maven repository.  The model covers the file utilities                   *)
(* (src/utils/fileUtils.js), the ingestion routes (routes/files.js) and     *)
(* the repository routes mounted at config.repository.basePath.             *)
(*                                                                          *)
(* Strings are sequences of one-character strings, so that suffix tests,    *)
(* splitting, joining and the regular expressions of the code are computed  *)
(* and not assumed.  A path is a sequence of names.                         *)
(***************************************************************************)
EXTENDS Integers, Sequences, FiniteSets, TLC

VARIABLES
    fs,        \* the server's filesystem below the application directory
    now,       \* the wall clock (new Date()), a counter
    req,       \* the last request received
    resp,      \* the response of the last completed request
    tasks,     \* the requests suspended at an await, by task id
    srcTree,   \* a directory tree handed to a file utility
    entryRev,  \* whether readdir lists names in descending order
    ret,       \* what the file utility returned
    sessions,  \* the session store: what req.session holds, by session id
    users      \* config.auth.users as stored in config.json

vars == <<fs, now, req, resp, tasks, srcTree, entryRev, ret, sessions, users>>

(***************************************************************************)
(* Characters and strings                                                   *)
(***************************************************************************)

\* The characters in use, in ASCII order.
Alphabet ==
    <<" ", "#", "*", "-", ".", "/", "0", "1", "2", "3", "4", "5", "6", "7",
      "8", "9", ":", "=", "F", "V", "_", "a", "b", "c", "d", "e", "f", "g",
      "h", "i", "j", "k", "l", "m", "n", "o", "p", "q", "r", "s", "t", "u",
      "v", "w", "x", "y", "z">>

CharRank(c) == CHOOSE i \in 1..Len(Alphabet) : Alphabet[i] = c

Digits == {"0", "1", "2", "3", "4", "5", "6", "7", "8", "9"}

Letters ==
    {"F", "V", "a", "b", "c", "d", "e", "f", "g", "h", "i", "j", "k", "l",
     "m", "n", "o", "p", "q", "r", "s", "t", "u", "v", "w", "x", "y", "z"}

\* \w
WordChars == Letters \cup Digits \cup {"_"}

RECURSIVE SkipSpaces(_, _)
SkipSpaces(s, i) == IF i <= Len(s) /\ s[i] = " " THEN SkipSpaces(s, i + 1) ELSE i

RECURSIVE TrimEnd(_)
TrimEnd(s) ==
    IF s # <<>> /\ s[Len(s)] = " " THEN TrimEnd(SubSeq(s, 1, Len(s) - 1)) ELSE s

\* String.prototype.trim
Trim(s) == TrimEnd(SubSeq(s, SkipSpaces(s, 1), Len(s)))

\* String.prototype.endsWith
EndsWith(s, suf) ==
    /\ Len(s) >= Len(suf)
    /\ SubSeq(s, Len(s) - Len(suf) + 1, Len(s)) = suf

\* String.prototype.startsWith
StartsWith(s, pre) ==
    /\ Len(s) >= Len(pre)
    /\ SubSeq(s, 1, Len(pre)) = pre

\* a < b in the order of String comparison (code units, shorter prefix first)
RECURSIVE StrLess(_, _)
StrLess(a, b) ==
    IF b = <<>> THEN FALSE
    ELSE IF a = <<>> THEN TRUE
    ELSE IF a[1] # b[1] THEN CharRank(a[1]) < CharRank(b[1])
    ELSE StrLess(Tail(a), Tail(b))

\* Array.prototype.join
RECURSIVE JoinWith(_, _)
JoinWith(parts, sep) ==
    IF parts = <<>> THEN <<>>
    ELSE IF Len(parts) = 1 THEN parts[1]
    ELSE parts[1] \o sep \o JoinWith(Tail(parts), sep)

\* String.prototype.split on a one-character separator
RECURSIVE SplitOn(_, _)
SplitOn(s, sep) ==
    IF \A i \in 1..Len(s) : s[i] # sep THEN <<s>>
    ELSE LET k == CHOOSE i \in 1..Len(s) :
                     /\ s[i] = sep
                     /\ \A j \in 1..(i - 1) : s[j] # sep
         IN  <<SubSeq(s, 1, k - 1)>> \o SplitOn(SubSeq(s, k + 1, Len(s)), sep)

(***************************************************************************)
(* Names                                                                    *)
(***************************************************************************)

N_src == <<"s", "r", "c">>
N_main == <<"m", "a", "i", "n">>
N_a == <<"a">>
N_b == <<"b">>
N_Foo == <<"F", "o", "o", ".", "j", "a", "v", "a">>
\* '.project-meta.json', the metadata sidecar of a project
MetaName ==
    <<".", "p", "r", "o", "j", "e", "c", "t", "-", "m", "e", "t", "a",
      ".", "j", "s", "o", "n">>

(***************************************************************************)
(* The filesystem: the set of directories and the content of every file,   *)
(* by path.  The root directory is the empty path.                          *)
(***************************************************************************)

RootPath == <<>>

\* dirs: the directories; mtime: the modification time of each; birth: the
\* time each was created; files: the content of each file
EmptyTree ==
    [dirs |-> {RootPath}, mtime |-> [d \in {RootPath} |-> 0],
     birth |-> [d \in {RootPath} |-> 0], files |-> <<>>]

FilePaths(t) == DOMAIN t.files

\* fs.statSync(p).isDirectory() of an existing path
IsDir(t, p) == p \in t.dirs

IsFile(t, p) == p \in FilePaths(t)

\* fs.existsSync
Exists(t, p) == IsDir(t, p) \/ IsFile(t, p)

IsUnder(p, d) == Len(p) > Len(d) /\ SubSeq(p, 1, Len(d)) = d

\* path.dirname; the root is its own parent
ParentPath(p) == SubSeq(p, 1, Len(p) - 1)

RECURSIVE Prefixes(_)
Prefixes(p) == IF p = <<>> THEN {<<>>} ELSE {p} \cup Prefixes(ParentPath(p))

\* the names fs.readdirSync(d) returns, as a set
EntrySet(t, d) ==
    {p[Len(d) + 1] : p \in {q \in t.dirs \cup FilePaths(t) : IsUnder(q, d)}}

\* the order in which readdir lists two names of one directory
ListedBefore(a, b, rev) == IF rev THEN StrLess(b, a) ELSE StrLess(a, b)

RECURSIVE InListingOrder(_, _)
InListingOrder(S, rev) ==
    IF S = {} THEN <<>>
    ELSE LET first == CHOOSE x \in S :
                         \A y \in S \ {x} : ListedBefore(x, y, rev)
         IN  <<first>> \o InListingOrder(S \ {first}, rev)

\* fs.readdirSync(d, { withFileTypes: true })
ReadDir(t, d, rev) == InListingOrder(EntrySet(t, d), rev)

\* path.join(base, name) for a name without '/': '' and '.' stay, '..' goes up
PathJoin(base, name) ==
    IF name = <<>> \/ name = <<".">> THEN base
    ELSE IF name = <<".", ".">> THEN ParentPath(base)
    ELSE base \o <<name>>

\* path.join(base, rel) for a relative path of several names
RECURSIVE PathJoinAll(_, _)
PathJoinAll(base, rel) ==
    IF rel = <<>> THEN base
    ELSE PathJoinAll(PathJoin(base, Head(rel)), Tail(rel))

\* a directory entry appears in or disappears from directory d at `time`
Touch(mtime, d, time) == [mtime EXCEPT ![d] = time]

\* fs.mkdirSync(p) where the parent exists and p does not
MkDir(t, p, time) ==
    [dirs  |-> t.dirs \cup {p},
     mtime |-> [d \in t.dirs \cup {p} |->
                  IF d = p \/ d = ParentPath(p) THEN time ELSE t.mtime[d]],
     birth |-> [d \in t.dirs \cup {p} |-> IF d = p THEN time ELSE t.birth[d]],
     files |-> t.files]

\* fs.mkdirSync(p, { recursive: true }): p and the directories on the way to
\* it that are missing (no file is in the way)
RECURSIVE MkDirP(_, _, _)
MkDirP(t, p, time) ==
    IF IsDir(t, p) THEN t
    ELSE MkDir(MkDirP(t, ParentPath(p), time), p, time)

\* a file is written at p, whose directory exists: created or overwritten
PutFile(t, p, content, time) ==
    [dirs  |-> t.dirs,
     mtime |-> IF IsFile(t, p) THEN t.mtime
               ELSE Touch(t.mtime, ParentPath(p), time),
     birth |-> t.birth,
     files |-> (p :> content) @@ t.files]

\* fs.rmSync(p, { recursive: true, force: true }) and fs.unlinkSync(p) of an
\* existing entry: p and everything below it
RemoveAll(t, p, time) ==
    LET keep == {d \in t.dirs : d # p /\ ~IsUnder(d, p)}
    IN  [dirs  |-> keep,
         mtime |-> [d \in keep |->
                      IF d = ParentPath(p) THEN time ELSE t.mtime[d]],
         birth |-> [d \in keep |-> t.birth[d]],
         files |-> [q \in {f \in FilePaths(t) : f # p /\ ~IsUnder(f, p)} |->
                      t.files[q]]]

\* a deletion that leaves the directory where it is
deleteDirectoryNone(t, dir, time) == t

\* fileUtils.deleteDirectory
deleteDirectory(t, dir, time) ==
    IF Exists(t, dir) THEN RemoveAll(t, dir, time) ELSE t

(***************************************************************************)
(* File content.  A file holds either text (a sequence of lines) or the    *)
(* JSON text of a metadata object as JSON.stringify writes it.             *)
(***************************************************************************)

\* a metadata object none of whose fields is set (null/undefined: empty)
NullMeta ==
    [originalFilename |-> <<>>, uploadedAt |-> 0, srcMainPath |-> <<>>,
     size |-> 0, uploadedBy |-> <<>>, version |-> <<>>, githubUrl |-> <<>>,
     githubBranch |-> <<>>, lastUpdated |-> 0]

Text(lines) == [kind |-> "text", lines |-> lines, obj |-> NullMeta]

\* JSON.stringify(meta, null, 2)
JsonStringify(meta) == [kind |-> "json", lines |-> <<>>, obj |-> meta]

BytesA == Text(<< <<"a">> >>)
BytesB == Text(<< <<"b">> >>)

(***************************************************************************)
(* fileUtils.findSrcMainFolder                                             *)
(***************************************************************************)

NotFound == [found |-> FALSE, path |-> <<>>]

\* a locate that descends into an entry before it tests it
RECURSIVE FindSrcMainDescendFirst(_, _, _, _, _)
FindSrcMainDescendFirst(t, dir, names, i, rev) ==
    IF i > Len(names) THEN [found |-> FALSE, path |-> <<>>]
    ELSE LET fullPath == dir \o <<names[i]>>
             mainPath == fullPath \o <<N_main>>
             below == FindSrcMainDescendFirst(t, fullPath,
                          ReadDir(t, fullPath, rev), 1, rev)
         IN  IF ~IsDir(t, fullPath)
             THEN FindSrcMainDescendFirst(t, dir, names, i + 1, rev)
             ELSE IF below.found THEN below
             ELSE IF names[i] = N_src /\ IsDir(t, mainPath)
             THEN [found |-> TRUE, path |-> mainPath]
             ELSE FindSrcMainDescendFirst(t, dir, names, i + 1, rev)

\* the loop of findSrcMainFolder: `names` are the entries of `dir`, `i` the
\* entry the loop is at
RECURSIVE FindSrcMainLoop(_, _, _, _, _)
FindSrcMainLoop(t, dir, names, i, rev) ==
    IF i > Len(names) THEN NotFound
    ELSE LET fullPath == dir \o <<names[i]>>
             mainPath == fullPath \o <<N_main>>
         IN  IF ~IsDir(t, fullPath)
             THEN FindSrcMainLoop(t, dir, names, i + 1, rev)
             ELSE IF names[i] = N_src /\ Exists(t, mainPath) /\ IsDir(t, mainPath)
             THEN [found |-> TRUE, path |-> mainPath]
             ELSE LET found == FindSrcMainLoop(t, fullPath,
                                   ReadDir(t, fullPath, rev), 1, rev)
                  IN  IF found.found THEN found
                      ELSE FindSrcMainLoop(t, dir, names, i + 1, rev)

findSrcMainFolder(t, dir, rev) ==
    FindSrcMainLoop(t, dir, ReadDir(t, dir, rev), 1, rev)

(***************************************************************************)
(* repo.addDirectoryToZip, and the reading of an archive                   *)
(***************************************************************************)

\* the loop of addDirectoryToZip; zipPath is the '/'-joined entry prefix
RECURSIVE AddDirLoop(_, _, _, _, _, _)
AddDirLoop(zip, t, dirPath, zipPath, names, rev) ==
    IF names = <<>> THEN zip
    ELSE LET name == Head(names)
             fullPath == dirPath \o <<name>>
             entryPath == IF zipPath # <<>> THEN zipPath \o <<"/">> \o name
                          ELSE name
             zip1 ==
                 IF name = MetaName THEN zip
                 ELSE IF IsDir(t, fullPath)
                 THEN AddDirLoop(zip, t, fullPath, entryPath,
                                 ReadDir(t, fullPath, rev), rev)
                 ELSE Append(zip, [entryName |-> entryPath,
                                   data |-> t.files[fullPath]])
         IN  AddDirLoop(zip1, t, dirPath, zipPath, Tail(names), rev)

addDirectoryToZip(zip, t, dirPath, zipPath, rev) ==
    AddDirLoop(zip, t, dirPath, zipPath, ReadDir(t, dirPath, rev), rev)

\* unpacking: every entry at the path its '/'-separated name spells
Unpacked(zip) ==
    {<<SplitOn(zip[i].entryName, "/"), zip[i].data>> : i \in 1..Len(zip)}

(***************************************************************************)
(* fileUtils.loadGitignore and fileUtils.copyDirectory                     *)
(***************************************************************************)

N_gitignore == <<".", "g", "i", "t", "i", "g", "n", "o", "r", "e">>

\* a name against one path segment of an ignore pattern: literal, or '*'
\* followed by a literal suffix
SegmentMatches(glob, name) ==
    IF glob # <<>> /\ glob[1] = "*" THEN EndsWith(name, Tail(glob))
    ELSE glob = name

\* one line of a .gitignore against a relative path (ignore().ignores): a
\* pattern with a '/' before its end is anchored at the base directory, any
\* other matches a name at every depth; a trailing '/' matches directories
\* only; a path below a matched directory is matched
PatternIgnores(line, rel, isDir) ==
    LET dirOnly == line # <<>> /\ line[Len(line)] = "/"
        p1 == IF dirOnly THEN SubSeq(line, 1, Len(line) - 1) ELSE line
        p2 == IF p1 # <<>> /\ p1[1] = "/" THEN Tail(p1) ELSE p1
        segs == SplitOn(p2, "/")
        anchored == p1 # p2 \/ Len(segs) > 1
        lastOk(k) == k < Len(rel) \/ ~dirOnly \/ isDir
    IN  /\ p2 # <<>>
        /\ line[1] # "#"
        /\ IF anchored
           THEN /\ Len(rel) >= Len(segs)
                /\ \A k \in 1..Len(segs) : SegmentMatches(segs[k], rel[k])
                /\ lastOk(Len(segs))
           ELSE \E k \in 1..Len(rel) :
                    SegmentMatches(segs[1], rel[k]) /\ lastOk(k)

NoIgnore == [present |-> FALSE, lines |-> <<>>]

\* the ignore instance for the .gitignore of dir, or null
loadGitignore(t, dir) ==
    LET gitignorePath == dir \o <<N_gitignore>>
    IN  IF ~Exists(t, gitignorePath) THEN NoIgnore
        ELSE IF IsDir(t, gitignorePath) THEN NoIgnore
        ELSE [present |-> TRUE, lines |-> t.files[gitignorePath].lines]

Ignores(ig, rel, isDir) ==
    \E k \in 1..Len(ig.lines) : PatternIgnores(ig.lines[k], rel, isDir)

\* the filesystem calls copyDirectory(src, dest, {ig, baseDir}) makes, in
\* the order it makes them; `names` are the entries of src still to copy
RECURSIVE CopyLoop(_, _, _, _, _, _, _)
CopyLoop(t, src, dest, ig, baseDir, names, rev) ==
    IF names = <<>> THEN <<>>
    ELSE LET srcPath == src \o <<Head(names)>>
             destPath == dest \o <<Head(names)>>
             relativePath == SubSeq(srcPath, Len(baseDir) + 1, Len(srcPath))
             skip == /\ ig.present
                     /\ Head(names) # N_gitignore
                     /\ Ignores(ig, relativePath, IsDir(t, srcPath))
             here ==
                 IF skip THEN <<>>
                 ELSE IF IsDir(t, srcPath)
                 THEN <<[op |-> "mkdir", from |-> srcPath, to |-> destPath]>>
                      \o CopyLoop(t, srcPath, destPath, ig, baseDir,
                                  ReadDir(t, srcPath, rev), rev)
                 ELSE <<[op |-> "copy", from |-> srcPath, to |-> destPath]>>
         IN  here \o CopyLoop(t, src, dest, ig, baseDir, Tail(names), rev)

copyDirectory(t, src, dest, ig, baseDir, rev) ==
    <<[op |-> "mkdir", from |-> src, to |-> dest]>>
    \o CopyLoop(t, src, dest, ig, baseDir, ReadDir(t, src, rev), rev)

copyDirectoryWithGitignore(t, src, dest, rev) ==
    copyDirectory(t, src, dest, loadGitignore(t, src), src, rev)

\* one call of the copy on filesystem f: mkdirSync(to, {recursive}) fails on
\* a file in the way, copyFileSync(from, to) on a directory in the way
CopyCallFails(f, call) ==
    IF call.op = "mkdir" THEN \E q \in Prefixes(call.to) : IsFile(f, q)
    ELSE IsDir(f, call.to)

CopyCall(f, t, call, time) ==
    IF call.op = "mkdir" THEN MkDirP(f, call.to, time)
    ELSE PutFile(f, call.to, t.files[call.from], time)

\* the calls run on f from call i on, until one fails; call number failAt
\* (if any) fails with an I/O error
RECURSIVE RunCopy(_, _, _, _, _, _)
RunCopy(f, t, calls, i, failAt, time) ==
    IF i > Len(calls) THEN [fs |-> f, failed |-> FALSE]
    ELSE IF i = failAt \/ CopyCallFails(f, calls[i])
    THEN [fs |-> f, failed |-> TRUE]
    ELSE RunCopy(CopyCall(f, t, calls[i], time), t, calls, i + 1, failAt, time)

(***************************************************************************)
(* Project names                                                           *)
(***************************************************************************)

\* the decimal digits of a number, as template literals print it
RECURSIVE DecStr(_)
DecStr(n) ==
    IF n < 10 THEN <<Alphabet[CharRank("0") + n]>>
    ELSE DecStr(n \div 10) \o <<Alphabet[CharRank("0") + (n % 10)]>>

NameChars == Letters \cup Digits \cup {"-", "_"}

\* name.replace(/[^a-zA-Z0-9-_]/g, '-')
Sanitize(name) ==
    [i \in 1..Len(name) |-> IF name[i] \in NameChars THEN name[i] ELSE "-"]

\* path.basename(p, ext)
Basename(p, ext) ==
    LET slashes == {i \in 1..Len(p) : p[i] = "/"}
        base == IF slashes = {} THEN p
                ELSE SubSeq(p, (CHOOSE i \in slashes : \A j \in slashes : j <= i) + 1,
                            Len(p))
    IN  IF p = ext THEN <<>>
        ELSE IF EndsWith(base, ext) /\ Len(base) > Len(ext)
        THEN SubSeq(base, 1, Len(base) - Len(ext))
        ELSE base

\* the loop that makes the name unique in projectsDir: the first of
\* a naming that takes the requested name without looking
UniqueNameUnchecked(f, projectsDir, projectName) == projectName

\* name, name-1, name-2, ... that does not exist, from candidate `finalName`
\* and counter value `counter` on
RECURSIVE UniqueLoop(_, _, _, _, _)
UniqueLoop(f, projectsDir, projectName, finalName, counter) ==
    IF Exists(f, PathJoin(projectsDir, finalName))
    THEN UniqueLoop(f, projectsDir, projectName,
                    projectName \o <<"-">> \o DecStr(counter), counter + 1)
    ELSE finalName

UniqueName(f, projectsDir, projectName) ==
    UniqueLoop(f, projectsDir, projectName, projectName, 1)

W_github == <<"g", "i", "t", "h", "u", "b", ".", "c", "o", "m", "/">>
W_dotgit == <<".", "g", "i", "t">>

RECURSIVE StripTrailingSlashes(_)
StripTrailingSlashes(s) ==
    IF s # <<>> /\ s[Len(s)] = "/"
    THEN StripTrailingSlashes(SubSeq(s, 1, Len(s) - 1)) ELSE s

\* the index after the longest run of [\w.-] of s that starts at i
RECURSIVE WordRunEnd(_, _)
WordRunEnd(s, i) ==
    IF i <= Len(s) /\ s[i] \in WordChars \cup {".", "-"}
    THEN WordRunEnd(s, i + 1) ELSE i

\* the owner and the repository of a GitHub URL, or null (ok = FALSE)
parseGitHubUrl(url0) ==
    LET u1 == StripTrailingSlashes(Trim(url0))
        url == IF EndsWith(u1, W_dotgit)
               THEN SubSeq(u1, 1, Len(u1) - Len(W_dotgit)) ELSE u1
        at(i) ==
            LET o == i + Len(W_github)
                oe == WordRunEnd(url, o)
                re == WordRunEnd(url, oe + 1)
            IN  [ok |-> /\ SubSeq(url, i, o - 1) = W_github
                        /\ oe > o
                        /\ oe <= Len(url) /\ url[oe] = "/"
                        /\ re > oe + 1,
                 owner |-> SubSeq(url, o, oe - 1),
                 repo |-> SubSeq(url, oe + 1, re - 1)]
        hits == {i \in 1..Len(url) : i + Len(W_github) - 1 <= Len(url) /\ at(i).ok}
    IN  IF hits = {} THEN [ok |-> FALSE, owner |-> <<>>, repo |-> <<>>]
        ELSE at(CHOOSE i \in hits : \A j \in hits : i <= j)

(***************************************************************************)
(* Version detection (routes/files.js)                                     *)
(***************************************************************************)

\* the /i flag: the lower-case form of a character
Lower(c) == IF c = "V" THEN "v" ELSE IF c = "F" THEN "f" ELSE c

LowerStr(s) == [i \in 1..Len(s) |-> Lower(s[i])]

\* the index after the longest run of digits of s that starts at i
RECURSIVE DigitRunEnd(_, _)
DigitRunEnd(s, i) ==
    IF i <= Len(s) /\ s[i] \in Digits THEN DigitRunEnd(s, i + 1) ELSE i

\* \d+(\.\d+){n-1} matched at index i of s, greedily: whether it matches and
\* the index after the match
RECURSIVE MatchRuns(_, _, _)
MatchRuns(s, i, n) ==
    LET e == DigitRunEnd(s, i)
    IN  IF e = i THEN [ok |-> FALSE, end |-> i]
        ELSE IF n = 1 THEN [ok |-> TRUE, end |-> e]
        ELSE IF e <= Len(s) /\ s[e] = "."
        THEN MatchRuns(s, e + 1, n - 1)
        ELSE [ok |-> FALSE, end |-> i]

NoMatch == [ok |-> FALSE, group |-> <<>>]

\* /[-_]v?(\d+(\.\d+){n-1})$/i
MatchTrailing(s, n) ==
    LET starts == {i \in 1..Len(s) :
                     /\ s[i] \in {"-", "_"}
                     /\ LET j == IF i < Len(s) /\ Lower(s[i + 1]) = "v"
                                 THEN i + 2 ELSE i + 1
                            m == MatchRuns(s, j, n)
                        IN  m.ok /\ m.end = Len(s) + 1}
    IN  IF starts = {} THEN NoMatch
        ELSE LET i == CHOOSE k \in starts : \A l \in starts : k <= l
                 j == IF Lower(s[i + 1]) = "v" THEN i + 2 ELSE i + 1
             IN  [ok |-> TRUE, group |-> SubSeq(s, j, Len(s))]

\* /v(\d+(\.\d+){n-1})/i, the leftmost match
MatchAfterV(s, n) ==
    LET starts == {i \in 1..Len(s) :
                     Lower(s[i]) = "v" /\ MatchRuns(s, i + 1, n).ok}
    IN  IF starts = {} THEN NoMatch
        ELSE LET i == CHOOSE k \in starts : \A l \in starts : k <= l
             IN  [ok |-> TRUE,
                  group |-> SubSeq(s, i + 1, MatchRuns(s, i + 1, n).end - 1)]

\* /(\d+\.\d+\.\d+)/, the leftmost match
MatchBare(s) ==
    LET starts == {i \in 1..Len(s) : MatchRuns(s, i, 3).ok}
    IN  IF starts = {} THEN NoMatch
        ELSE LET i == CHOOSE k \in starts : \A l \in starts : k <= l
             IN  [ok |-> TRUE,
                  group |-> SubSeq(s, i, MatchRuns(s, i, 3).end - 1)]

Ext_zip == <<".", "z", "i", "p">>
Ext_targz == <<".", "t", "a", "r", ".", "g", "z">>
Ext_tgz == <<".", "t", "g", "z">>

\* filename.replace(/\.(zip|tar\.gz|tgz)$/i, '')
StripArchiveExt(filename) ==
    LET l == LowerStr(filename)
        cut(ext) == SubSeq(filename, 1, Len(filename) - Len(ext))
    IN  IF EndsWith(l, Ext_zip) THEN cut(Ext_zip)
        ELSE IF EndsWith(l, Ext_targz) THEN cut(Ext_targz)
        ELSE IF EndsWith(l, Ext_tgz) THEN cut(Ext_tgz)
        ELSE filename

\* the version (empty: null) the patterns find in a file name, the first
\* pattern that matches deciding
extractVersionFromFilename(filename) ==
    LET baseName == StripArchiveExt(filename)
        patterns == <<MatchTrailing(baseName, 3), MatchTrailing(baseName, 2),
                      MatchAfterV(baseName, 3), MatchAfterV(baseName, 2),
                      MatchBare(baseName)>>
        hits == {k \in 1..Len(patterns) : patterns[k].ok}
    IN  IF hits = {} THEN <<>>
        ELSE patterns[CHOOSE k \in hits : \A l \in hits : k <= l].group

N_gradle ==
    <<"g", "r", "a", "d", "l", "e", ".", "p", "r", "o", "p", "e", "r", "t",
      "i", "e", "s">>
W_version == <<"v", "e", "r", "s", "i", "o", "n">>

\* /^version\s*=\s*(.+)$/ on one line: the captured group, trimmed
VersionLine(line) ==
    IF ~StartsWith(line, W_version) THEN NoMatch
    ELSE LET e == SkipSpaces(line, Len(W_version) + 1)
         IN  IF e <= Len(line) /\ line[e] = "=" /\ e < Len(line)
             THEN [ok |-> TRUE, group |-> Trim(SubSeq(line, e + 1, Len(line)))]
             ELSE NoMatch

\* /^\d+\.\d+(\.\d+)?(-[\w.]+)?$/
LooksLikeVersion(v) ==
    LET two == MatchRuns(v, 1, 2)
        three == MatchRuns(v, 1, 3)
        tailOk(e) ==
            \/ e = Len(v) + 1
            \/ /\ e < Len(v)
               /\ v[e] = "-"
               /\ \A k \in (e + 1)..Len(v) : v[k] \in WordChars \cup {"."}
    IN  \/ three.ok /\ tailOk(three.end)
        \/ two.ok /\ tailOk(two.end)

\* the version a gradle.properties file states: its first version line, if
\* that line's value looks like a version
GradleFileVersion(content) ==
    LET hits == {k \in 1..Len(content.lines) : VersionLine(content.lines[k]).ok}
    IN  IF hits = {} THEN <<>>
        ELSE LET version == VersionLine(content.lines[
                                CHOOSE k \in hits : \A l \in hits : k <= l]).group
             IN  IF LooksLikeVersion(version) THEN version ELSE <<>>

\* the loop of extractVersionFromGradleProperties over the entries of dir
RECURSIVE GradleLoop(_, _, _, _)
GradleLoop(t, dir, names, rev) ==
    IF names = <<>> THEN <<>>
    ELSE LET fullPath == dir \o <<Head(names)>>
             here ==
                 IF IsFile(t, fullPath) /\ Head(names) = N_gradle
                 THEN GradleFileVersion(t.files[fullPath])
                 ELSE IF IsDir(t, fullPath) /\ Head(names)[1] # "."
                 THEN GradleLoop(t, fullPath, ReadDir(t, fullPath, rev), rev)
                 ELSE <<>>
         IN  IF here # <<>> THEN here
             ELSE GradleLoop(t, dir, Tail(names), rev)

extractVersionFromGradleProperties(t, dir, rev) ==
    GradleLoop(t, dir, ReadDir(t, dir, rev), rev)

\* Number(s) of a run of digits
RECURSIVE ToNumber(_)
ToNumber(s) ==
    IF s = <<>> THEN 0
    ELSE 10 * ToNumber(SubSeq(s, 1, Len(s) - 1)) + (CharRank(s[Len(s)]) - CharRank("0"))

\* /^v?\d+\.\d+(\.\d+)?$/
IsVersionTag(name) ==
    LET j == IF name # <<>> /\ name[1] = "v" THEN 2 ELSE 1
    IN  \/ LET m == MatchRuns(name, j, 3) IN m.ok /\ m.end = Len(name) + 1
        \/ LET m == MatchRuns(name, j, 2) IN m.ok /\ m.end = Len(name) + 1

\* name.replace(/^v/, '')
StripV(name) == IF name # <<>> /\ name[1] = "v" THEN Tail(name) ELSE name

\* a comparator that reads each component by its first digit only
TagCompareText(a, b) ==
    LET aParts == SplitOn(a, ".")
        bParts == SplitOn(b, ".")
        n == IF Len(aParts) > Len(bParts) THEN Len(aParts) ELSE Len(bParts)
        val(parts, i) == IF i <= Len(parts) THEN ToNumber(SubSeq(parts[i], 1, 1)) ELSE 0
        diff == {i \in 1..n : val(aParts, i) # val(bParts, i)}
    IN  IF diff = {} THEN 0
        ELSE LET i == CHOOSE k \in diff : \A l \in diff : k <= l
             IN  val(bParts, i) - val(aParts, i)

\* the comparator of the tag sort: negative when a sorts before b
TagCompare(a, b) ==
    LET aParts == SplitOn(a, ".")
        bParts == SplitOn(b, ".")
        n == IF Len(aParts) > Len(bParts) THEN Len(aParts) ELSE Len(bParts)
        val(parts, i) == IF i <= Len(parts) THEN ToNumber(parts[i]) ELSE 0
        diff == {i \in 1..n : val(aParts, i) # val(bParts, i)}
    IN  IF diff = {} THEN 0
        ELSE LET i == CHOOSE k \in diff : \A l \in diff : k <= l
             IN  val(bParts, i) - val(aParts, i)

\* Array.prototype.sort with TagCompare, which is stable
RECURSIVE InsertTag(_, _)
InsertTag(sorted, v) ==
    IF sorted = <<>> THEN <<v>>
    ELSE IF TagCompare(Head(sorted), v) <= 0
    THEN <<Head(sorted)>> \o InsertTag(Tail(sorted), v)
    ELSE <<v>> \o sorted

RECURSIVE SortTags(_)
SortTags(vs) ==
    IF vs = <<>> THEN <<>>
    ELSE InsertTag(SortTags(SubSeq(vs, 1, Len(vs) - 1)), vs[Len(vs)])

\* what fetchGitHubVersion resolves to for a tag list the API returned
\* (empty: null)
VersionFromTags(tags) ==
    LET versionTags == SortTags(
            [i \in 1..Len(SelectSeq(tags, IsVersionTag)) |->
                StripV(SelectSeq(tags, IsVersionTag)[i])])
    IN  IF Len(versionTags) > 0 THEN versionTags[1] ELSE <<>>

(***************************************************************************)
(* The server's directories (server.js) and the metadata sidecar           *)
(***************************************************************************)

N_app == <<"a", "p", "p">>
N_projects == <<"p", "r", "o", "j", "e", "c", "t", "s">>
N_temp == <<"t", "e", "m", "p">>
N_uploads == <<"u", "p", "l", "o", "a", "d", "s">>
N_config == <<"c", "o", "n", "f", "i", "g", ".", "j", "s", "o", "n">>

\* the application directory, path.resolve(__dirname, '..', '..')
AppDir == <<N_app>>
\* config.storage.projectsDir, resolved
ProjectsDir == <<N_app, N_projects>>

\* the filesystem when the server has started: config.json and the three
\* storage directories
InitialFs ==
    PutFile(MkDirP(MkDirP(MkDirP(EmptyTree, ProjectsDir, 0),
                          <<N_app, N_temp>>, 0), <<N_app, N_uploads>>, 0),
            <<N_app, N_config>>, Text(<< <<"c", "o", "n", "f", "i", "g">> >>), 0)

W_null == <<"n", "u", "l", "l">>

\* JSON.parse of a file's content: the JSON text of an object parses to the
\* object, the text null to null, the text {} to an object without fields
JsonParse(content) ==
    IF content.kind = "json"
    THEN [ok |-> TRUE, isObject |-> TRUE, obj |-> content.obj]
    ELSE IF content.lines = <<W_null>>
    THEN [ok |-> TRUE, isObject |-> FALSE, obj |-> NullMeta]
    ELSE IF content.lines = << <<"{", "}">> >>
    THEN [ok |-> TRUE, isObject |-> TRUE, obj |-> NullMeta]
    ELSE [ok |-> FALSE, isObject |-> FALSE, obj |-> NullMeta]

\* the sidecar as the two listings parse it; nothing parsed when the file
\* is missing, is a directory or is no JSON text (meta stays {})
ListingMeta(f, projectPath) ==
    IF IsFile(f, projectPath \o <<MetaName>>)
    THEN JsonParse(f.files[projectPath \o <<MetaName>>])
    ELSE [ok |-> FALSE, isObject |-> FALSE, obj |-> NullMeta]

\* path.relative(base, p) for p below base, '/'-separated
RelativeStr(base, p) == JoinWith(SubSeq(p, Len(base) + 1, Len(p)), <<"/">>)

\* path.join(base, rel) for a '/'-separated relative path
JoinStr(base, rel) ==
    IF rel = <<>> THEN base ELSE PathJoinAll(base, SplitOn(rel, "/"))

(***************************************************************************)
(* POST /api/upload (routes/files.js)                                      *)
(***************************************************************************)

\* the step at which a request fails with an I/O error, if any
FailPoints == {"none", "download", "extract", "mkdir", "clear", "copy", "write"}

\* a || b on strings: the first that is not empty
OrElse(a, b) == IF a # <<>> THEN a ELSE b

\* the relative path stored for a located src/main, or null
StoredSrcMain(sourceDir, srcMainPath) ==
    IF srcMainPath.found THEN RelativeStr(sourceDir, srcMainPath.path) ELSE <<>>

\* the number of the copy call that fails, if the request fails there
CopyFailCall(in) == IF in.failAt = "copy" THEN in.failCall ELSE 0

UploadFailed(name) == [kind |-> "upload", status |-> 500, name |-> name]

\* the name of the new project
UploadName(f, in) ==
    UniqueName(f, ProjectsDir,
               Sanitize(OrElse(in.projectName, Basename(in.originalname, Ext_zip))))

\* a resolution that asks gradle.properties before the filename
UploadVersionGradleFirst(in, rev) ==
    OrElse(extractVersionFromGradleProperties(in.zip, RootPath, rev),
           extractVersionFromFilename(in.originalname))

\* first the filename, then gradle.properties
UploadVersion(in, rev) ==
    OrElse(extractVersionFromFilename(in.originalname),
           extractVersionFromGradleProperties(in.zip, RootPath, rev))

\* the sidecar and the response, after the copy
UploadSave(f, copied, time, in, finalName, srcMainPath, extractedVersion) ==
    LET meta == [originalFilename |-> in.originalname,
                 uploadedAt |-> time,
                 srcMainPath |-> srcMainPath,
                 size |-> in.size,
                 uploadedBy |-> in.user,
                 version |-> extractedVersion,
                 githubUrl |-> <<>>,
                 githubBranch |-> <<>>,
                 lastUpdated |-> 0]
        metaPath == ProjectsDir \o <<finalName, MetaName>>
    IN  IF in.failAt \in {"extract", "mkdir"}
        THEN [fs |-> f, resp |-> UploadFailed(finalName)]
        ELSE IF copied.failed
        THEN [fs |-> copied.fs, resp |-> UploadFailed(finalName)]
        ELSE IF in.failAt = "write" \/ IsDir(copied.fs, metaPath)
        THEN [fs |-> copied.fs, resp |-> UploadFailed(finalName)]
        ELSE [fs |-> PutFile(copied.fs, metaPath, JsonStringify(meta), time),
              resp |-> [kind |-> "upload", status |-> 200, name |-> finalName,
                        srcMainPath |-> meta.srcMainPath,
                        originalFilename |-> meta.originalFilename]]

\* the project directory and the copy into it
UploadNamed(f, time, in, rev, finalName) ==
    UploadSave(f,
               RunCopy(MkDirP(f, ProjectsDir \o <<finalName>>, time), in.zip,
                       copyDirectoryWithGitignore(in.zip, RootPath,
                                                  ProjectsDir \o <<finalName>>, rev),
                       1, CopyFailCall(in), time),
               time, in, finalName,
               StoredSrcMain(RootPath, findSrcMainFolder(in.zip, RootPath, rev)),
               UploadVersion(in, rev))

\* the whole handler, for an authenticated request with a file.  in.zip is
\* the tree the uploaded archive extracts to.
UploadHandler(f, time, in, rev) == UploadNamed(f, time, in, rev, UploadName(f, in))

(***************************************************************************)
(* POST /api/clone (routes/files.js)                                       *)
(***************************************************************************)

W_https == <<"h", "t", "t", "p", "s", ":", "/", "/">>
W_main == N_main

\* `https://github.com/${owner}/${repo}`
CleanUrl(parsed) == W_https \o W_github \o parsed.owner \o <<"/">> \o parsed.repo

\* GitHub archives have one root folder: the directory of the extracted
\* tree t that holds the sources
SourceDirOfEntries(t, entries) ==
    IF Len(entries) = 1 /\ IsDir(t, <<entries[1]>>) THEN <<entries[1]>>
    ELSE RootPath

SourceDirOf(t, rev) == SourceDirOfEntries(t, ReadDir(t, RootPath, rev))

CloneFailed(name) == [kind |-> "clone", status |-> 500, name |-> name]

\* what the handler holds when it awaits the tag list
CloneLocal(in, parsed, finalName, sourceDir, srcMainPath) ==
    [finalName |-> finalName,
     zip |-> in.zip,
     sourceDir |-> sourceDir,
     srcMainPath |-> StoredSrcMain(sourceDir, srcMainPath),
     parsed |-> parsed,
     branch |-> OrElse(in.branch, W_main),
     user |-> in.user]

\* the project directory and the copy into it
CloneCopy(f, time, in, rev, parsed, sourceDir, finalName) ==
    [copied |-> RunCopy(MkDirP(f, ProjectsDir \o <<finalName>>, time), in.zip,
                        copyDirectoryWithGitignore(in.zip, sourceDir,
                                                   ProjectsDir \o <<finalName>>, rev),
                        1, CopyFailCall(in), time),
     local |-> CloneLocal(in, parsed, finalName, sourceDir,
                          findSrcMainFolder(in.zip, sourceDir, rev))]

\* whether the ingestion failed, and the filesystem it leaves
CloneIngested(f, in, c) ==
    [failed |-> in.failAt \in {"extract", "mkdir"} \/ c.copied.failed,
     fs |-> IF in.failAt \in {"extract", "mkdir"} THEN f ELSE c.copied.fs,
     local |-> c.local]

CloneParsed(f, time, in, rev, parsed) ==
    CloneIngested(f, in,
        CloneCopy(f, time, in, rev, parsed, SourceDirOf(in.zip, rev),
                  UniqueName(f, ProjectsDir,
                             Sanitize(OrElse(in.projectName, parsed.repo)))))

\* from the end of the download to the await of the tag list: extraction,
\* naming, the project directory and the copy.  in.zip is the tree the
\* downloaded archive extracts to.
CloneIngest(f, time, in, rev) == CloneParsed(f, time, in, rev, parseGitHubUrl(in.url))

\* a tag lookup that never finds a version
fetchGitHubVersionNone(tags) == <<>>

\* what fetchGitHubVersion resolves to: tags.ok is whether the API answered
\* 200 with a tag list
fetchGitHubVersion(tags) == IF tags.ok THEN VersionFromTags(tags.names) ELSE <<>>

\* first the tags, then gradle.properties
UpstreamVersion(local, tags, rev) ==
    OrElse(fetchGitHubVersion(tags),
           extractVersionFromGradleProperties(local.zip, local.sourceDir, rev))

CloneSave(f, time, local, failWrite, detectedVersion) ==
    LET projectPath == ProjectsDir \o <<local.finalName>>
        metaPath == projectPath \o <<MetaName>>
        meta == [originalFilename |-> local.parsed.repo,
                 uploadedAt |-> time,
                 srcMainPath |-> local.srcMainPath,
                 size |-> 0,
                 uploadedBy |-> local.user,
                 version |-> detectedVersion,
                 githubUrl |-> CleanUrl(local.parsed),
                 githubBranch |-> local.branch,
                 lastUpdated |-> time]
    IN  IF failWrite \/ ~IsDir(f, projectPath) \/ IsDir(f, metaPath)
        THEN [fs |-> f, resp |-> CloneFailed(local.finalName)]
        ELSE [fs |-> PutFile(f, metaPath, JsonStringify(meta), time),
              resp |-> [kind |-> "clone", status |-> 200,
                        name |-> local.finalName,
                        srcMainPath |-> meta.srcMainPath,
                        githubUrl |-> meta.githubUrl,
                        branch |-> local.branch]]

\* from the answer of the tag list to the response: version, sidecar
CloneFinish(f, time, local, tags, failWrite, rev) ==
    CloneSave(f, time, local, failWrite, UpstreamVersion(local, tags, rev))

\* the checks before the download: whether the request is answered 400
CloneRejected(in) == in.url = <<>> \/ ~parseGitHubUrl(in.url).ok

CloneRejection == [kind |-> "clone", status |-> 400, name |-> <<>>]

CloneAfterIngest(a, time, in, rev) ==
    IF a.failed THEN [fs |-> a.fs, resp |-> CloneFailed(a.local.finalName)]
    ELSE CloneFinish(a.fs, time, a.local, in.tags, in.failAt = "write", rev)

\* the whole handler, run without another request in between
CloneHandler(f, time, in, rev) ==
    IF CloneRejected(in) THEN [fs |-> f, resp |-> CloneRejection]
    ELSE IF in.failAt = "download" THEN [fs |-> f, resp |-> CloneFailed(<<>>)]
    ELSE CloneAfterIngest(CloneIngest(f, time, in, rev), time, in, rev)

(***************************************************************************)
(* POST /api/projects/:name/update (routes/files.js)                       *)
(***************************************************************************)

UpdateResp(status, name) == [kind |-> "update", status |-> status, name |-> name]

\* the sidecar as the update handler reads it
UpdateReadMeta(f, metaPath) ==
    IF IsFile(f, metaPath) THEN JsonParse(f.files[metaPath])
    ELSE [ok |-> FALSE, isObject |-> FALSE, obj |-> NullMeta]

\* the status the checks before the download answer with.  0: none, the
\* update goes on; -1: the handler threw outside its try block (the
\* sidecar holds null) and answers nothing.
UpdateCheckStatus(f, projectPath, parsedMeta) ==
    IF ~Exists(f, projectPath) THEN 404
    ELSE IF ~Exists(f, projectPath \o <<MetaName>>) THEN 400
    ELSE IF ~parsedMeta.ok THEN 400
    ELSE IF ~parsedMeta.isObject THEN -1
    ELSE IF parsedMeta.obj.githubUrl = <<>> THEN 400
    ELSE IF ~parseGitHubUrl(parsedMeta.obj.githubUrl).ok THEN 400
    ELSE 0

UpdateChecked(f, name, parsedMeta) ==
    [resp |-> UpdateResp(UpdateCheckStatus(f, PathJoin(ProjectsDir, name), parsedMeta),
                         name),
     meta |-> parsedMeta.obj]

\* the checks before the download
UpdateCheck(f, name) ==
    UpdateChecked(f, name,
                  UpdateReadMeta(f, PathJoin(ProjectsDir, name) \o <<MetaName>>))

\* a clearing that removes nothing
ClearLoopNone(f, projectPath, entries, i, failAt, time) ==
    [fs |-> f, failed |-> FALSE]

\* the loop that clears the project directory, from entry i on; the entry
\* numbered failAt (if any) fails to be removed
RECURSIVE ClearLoop(_, _, _, _, _, _)
ClearLoop(f, projectPath, entries, i, failAt, time) ==
    IF i > Len(entries) THEN [fs |-> f, failed |-> FALSE]
    ELSE IF entries[i] = MetaName
    THEN ClearLoop(f, projectPath, entries, i + 1, failAt, time)
    ELSE IF i = failAt THEN [fs |-> f, failed |-> TRUE]
    ELSE ClearLoop(RemoveAll(f, projectPath \o <<entries[i]>>, time),
                   projectPath, entries, i + 1, failAt, time)

\* the copy of the new content, unless the clearing failed
UpdateCopy(cleared, time, in, rev, projectPath, sourceDir) ==
    IF cleared.failed THEN cleared
    ELSE RunCopy(cleared.fs, in.zip,
                 copyDirectoryWithGitignore(in.zip, sourceDir, projectPath, rev),
                 1, CopyFailCall(in), time)

UpdateReplaced(f, name, meta, in, early, sourceDir, srcMainPath, copied) ==
    [failed |-> early \/ copied.failed,
     fs |-> IF early THEN f ELSE copied.fs,
     local |-> [name |-> name,
                meta |-> meta,
                zip |-> in.zip,
                sourceDir |-> sourceDir,
                srcMainPath |-> StoredSrcMain(sourceDir, srcMainPath)]]

UpdateReplaceIn(f, time, name, meta, in, rev, projectPath, sourceDir) ==
    UpdateReplaced(f, name, meta, in,
        in.failAt = "extract" \/ ~IsDir(f, projectPath),
        sourceDir,
        findSrcMainFolder(in.zip, sourceDir, rev),
        UpdateCopy(ClearLoop(f, projectPath, ReadDir(f, projectPath, rev), 1,
                             IF in.failAt = "clear" THEN in.failCall ELSE 0, time),
                   time, in, rev, projectPath, sourceDir))

\* from the end of the download to the await of the tag list: extraction,
\* the clearing of the project directory and the copy
UpdateReplace(f, time, name, meta, in, rev) ==
    UpdateReplaceIn(f, time, name, meta, in, rev,
                    PathJoin(ProjectsDir, name), SourceDirOf(in.zip, rev))

\* a sidecar update that stores whatever this update detected
UpdatedMetaErasing(meta, time, srcMainPath, detectedVersion) ==
    [meta EXCEPT !.lastUpdated = time,
                 !.srcMainPath = srcMainPath,
                 !.version = detectedVersion]

\* the sidecar an update writes: the one it read, with three fields set
UpdatedMeta(meta, time, srcMainPath, detectedVersion) ==
    [meta EXCEPT !.lastUpdated = time,
                 !.srcMainPath = srcMainPath,
                 !.version = OrElse(detectedVersion, meta.version)]

UpdateSave(f, time, local, failWrite, projectPath, detectedVersion) ==
    IF failWrite \/ ~IsDir(f, projectPath) \/ IsDir(f, projectPath \o <<MetaName>>)
    THEN [fs |-> f, resp |-> UpdateResp(500, local.name)]
    ELSE [fs |-> PutFile(f, projectPath \o <<MetaName>>,
                         JsonStringify(UpdatedMeta(local.meta, time,
                                                   local.srcMainPath,
                                                   detectedVersion)),
                         time),
          resp |-> UpdateResp(200, local.name)]

\* from the answer of the tag list to the response: version, sidecar
UpdateFinish(f, time, local, tags, failWrite, rev) ==
    UpdateSave(f, time, local, failWrite, PathJoin(ProjectsDir, local.name),
               UpstreamVersion(local, tags, rev))

UpdateAfterReplace(a, time, name, in, rev) ==
    IF a.failed THEN [fs |-> a.fs, resp |-> UpdateResp(500, name)]
    ELSE UpdateFinish(a.fs, time, a.local, in.tags, in.failAt = "write", rev)

UpdateAfterCheck(f, time, name, in, rev, c) ==
    IF c.resp.status # 0 THEN [fs |-> f, resp |-> c.resp]
    ELSE IF in.failAt = "download" THEN [fs |-> f, resp |-> UpdateResp(500, name)]
    ELSE UpdateAfterReplace(UpdateReplace(f, time, name, c.meta, in, rev),
                            time, name, in, rev)

\* the whole handler, run without another request in between
UpdateHandler(f, time, name, in, rev) ==
    UpdateAfterCheck(f, time, name, in, rev, UpdateCheck(f, name))

(***************************************************************************)
(* GET /api/projects/:name (routes/files.js) and fileUtils.getDirectoryTree *)
(***************************************************************************)

\* the characters in the order String.prototype.localeCompare gives them:
\* punctuation, digits, letters; a capital has the place of its small letter
LocaleOrder ==
    <<" ", "_", "-", ":", ".", "*", "/", "#", "=", "0", "1", "2", "3", "4",
      "5", "6", "7", "8", "9", "a", "b", "c", "d", "e", "f", "g", "h", "i",
      "j", "k", "l", "m", "n", "o", "p", "q", "r", "s", "t", "u", "v", "w",
      "x", "y", "z">>

LocaleRank(c) == CHOOSE i \in 1..Len(LocaleOrder) : LocaleOrder[i] = Lower(c)

\* a.localeCompare(b) < 0: by the letters first, and between names that
\* differ in case alone the one with the small letter first
RECURSIVE LocaleLess(_, _)
LocaleLess(a, b) ==
    IF LowerStr(a) = LowerStr(b)
    THEN /\ a # b
         /\ LET i == CHOOSE k \in 1..Len(a) :
                        a[k] # b[k] /\ \A j \in 1..(k - 1) : a[j] = b[j]
            IN  a[i] = Lower(a[i])
    ELSE IF a = <<>> THEN TRUE
    ELSE IF b = <<>> THEN FALSE
    ELSE IF Lower(Head(a)) # Lower(Head(b))
    THEN LocaleRank(Head(a)) < LocaleRank(Head(b))
    ELSE LocaleLess(Tail(a), Tail(b))

\* the comparator of getDirectoryTree is negative: directories first, then
\* by name
TreeEntryBefore(a, b) ==
    IF a.isDirectory # b.isDirectory THEN a.isDirectory
    ELSE LocaleLess(a.name, b.name)

RECURSIVE InsertTreeEntry(_, _)
InsertTreeEntry(sorted, e) ==
    IF sorted = <<>> THEN <<e>>
    ELSE IF TreeEntryBefore(e, Head(sorted)) THEN <<e>> \o sorted
    ELSE <<Head(sorted)>> \o InsertTreeEntry(Tail(sorted), e)

RECURSIVE SortTreeEntries(_)
SortTreeEntries(es) ==
    IF es = <<>> THEN <<>>
    ELSE InsertTreeEntry(SortTreeEntries(SubSeq(es, 1, Len(es) - 1)), es[Len(es)])

\* fileUtils.getDirectoryTree: the entries of dir with their paths relative
\* to baseDir, the children of a directory below it (the size of a file is
\* left out).  A dir that cannot be read gives no entries.
RECURSIVE getDirectoryTree(_, _, _, _)
getDirectoryTree(t, dir, baseDir, rev) ==
    IF ~IsDir(t, dir) THEN <<>>
    ELSE SortTreeEntries(
            [i \in 1..Len(ReadDir(t, dir, rev)) |->
                [name |-> ReadDir(t, dir, rev)[i],
                 path |-> RelativeStr(baseDir, dir \o <<ReadDir(t, dir, rev)[i]>>),
                 isDirectory |-> IsDir(t, dir \o <<ReadDir(t, dir, rev)[i]>>),
                 children |->
                    IF IsDir(t, dir \o <<ReadDir(t, dir, rev)[i]>>)
                    THEN getDirectoryTree(t, dir \o <<ReadDir(t, dir, rev)[i]>>,
                                          baseDir, rev)
                    ELSE <<>>]])

\* the meta the handler sends: {} unless the sidecar parses, then what it
\* parses to (null for the JSON text null)
GetProjectHandler(f, name, rev) ==
    IF ~Exists(f, PathJoin(ProjectsDir, name))
    THEN [kind |-> "project", status |-> 404, name |-> name]
    ELSE [kind |-> "project", status |-> 200, name |-> name,
          files |-> getDirectoryTree(f, PathJoin(ProjectsDir, name),
                                     PathJoin(ProjectsDir, name), rev),
          metaIsNull |-> /\ ListingMeta(f, PathJoin(ProjectsDir, name)).ok
                         /\ ~ListingMeta(f, PathJoin(ProjectsDir, name)).isObject,
          meta |-> ListingMeta(f, PathJoin(ProjectsDir, name)).obj]

(***************************************************************************)
(* DELETE /api/projects/:name (routes/files.js)                            *)
(***************************************************************************)

DeleteHandler(f, time, name) ==
    LET projectPath == PathJoin(ProjectsDir, name)
    IN  IF ~Exists(f, projectPath)
        THEN [fs |-> f, resp |-> [kind |-> "delete", status |-> 404, name |-> name]]
        ELSE [fs |-> deleteDirectory(f, projectPath, time),
              resp |-> [kind |-> "delete", status |-> 200, name |-> name]]

(***************************************************************************)
(* The repository routes (routes/files.js): GET /api/artifacts and the     *)
(* dispatcher GET /*                                                       *)
(***************************************************************************)

W_metadataXml == <<"m", "a", "v", "e", "n", "-", "m", "e", "t", "a", "d", "a", "t", "a", ".", "x", "m", "l">>
Ext_sha1 == <<".", "s", "h", "a", "1">>
Ext_md5 == <<".", "m", "d", "5">>
Ext_jar == <<".", "j", "a", "r">>
Ext_pom == <<".", "p", "o", "m">>
W_apiPrefix == <<"/", "a", "p", "i", "/">>
\* config.repository.groupId
ConfigGroupId == <<"c", "o", "m", ".", "e", "x", "a", "m", "p", "l", "e">>
W_defaultVersion == <<"1", ".", "0", ".", "0">>

\* the sidecar of a project directory as the listing and repository routes
\* read it: the parsed object, or {} (here NullMeta) when the file is
\* missing or unreadable
ReadMetaOrEmpty(f, projectPath) ==
    LET metaPath == projectPath \o <<MetaName>>
        parsedMeta == IF IsFile(f, metaPath) THEN JsonParse(f.files[metaPath])
                      ELSE [ok |-> FALSE, isObject |-> FALSE, obj |-> NullMeta]
    IN  IF parsedMeta.ok /\ parsedMeta.isObject THEN parsedMeta.obj ELSE NullMeta

\* a sidecar that holds the JSON text null parses to null, and the first
\* property read of it (meta.uploadedAt, meta.version) throws a TypeError,
\* which the handler's outer try block catches
ListingThrows(f, names) ==
    \E i \in 1..Len(names) :
        /\ ListingMeta(f, ProjectsDir \o <<names[i]>>).ok
        /\ ~ListingMeta(f, ProjectsDir \o <<names[i]>>).isObject

\* entries.filter(entry => entry.isDirectory())
ProjectDirs(f, rev) ==
    SelectSeq(ReadDir(f, ProjectsDir, rev),
              LAMBDA n : IsDir(f, ProjectsDir \o <<n>>))

ArtifactEntry(name, meta) ==
    [name |-> name,
     groupId |-> ConfigGroupId,
     artifactId |-> name,
     version |-> IF meta.version # <<>> THEN meta.version ELSE W_defaultVersion,
     srcMainPath |-> meta.srcMainPath]

ArtifactsOf(f, entries) ==
    IF ListingThrows(f, entries)
    THEN [kind |-> "artifacts", status |-> 500, artifacts |-> <<>>]
    ELSE [kind |-> "artifacts", status |-> 200,
          artifacts |->
            [i \in 1..Len(entries) |->
                ArtifactEntry(entries[i],
                              ListingMeta(f, ProjectsDir \o <<entries[i]>>).obj)]]

\* GET /api/artifacts: one entry for every directory of the projects
\* directory, in listing order
ListArtifacts(f, rev) == ArtifactsOf(f, ProjectDirs(f, rev))

W_unknown == <<"u", "n", "k", "n", "o", "w", "n">>

\* a || b on times: the first that is set
OrElseTime(a, b) == IF a # 0 THEN a ELSE b

ProjectEntry(name, meta, birthtime) ==
    [name |-> name,
     uploadedAt |-> OrElseTime(meta.uploadedAt, birthtime),
     srcMainPath |-> meta.srcMainPath,
     originalFilename |-> OrElse(meta.originalFilename, name),
     uploadedBy |-> OrElse(meta.uploadedBy, W_unknown),
     githubUrl |-> meta.githubUrl,
     githubBranch |-> meta.githubBranch,
     lastUpdated |-> OrElseTime(meta.lastUpdated,
                                OrElseTime(meta.uploadedAt, birthtime))]

\* e put into a list sorted by uploadedAt, latest first, behind the entries
\* that are as late (the sort is stable)
RECURSIVE InsertByDate(_, _)
InsertByDate(sorted, e) ==
    IF sorted = <<>> THEN <<e>>
    ELSE IF Head(sorted).uploadedAt >= e.uploadedAt
    THEN <<Head(sorted)>> \o InsertByDate(Tail(sorted), e)
    ELSE <<e>> \o sorted

\* .sort((a, b) => new Date(b.uploadedAt) - new Date(a.uploadedAt))
RECURSIVE SortByDate(_)
SortByDate(es) ==
    IF es = <<>> THEN <<>>
    ELSE InsertByDate(SortByDate(SubSeq(es, 1, Len(es) - 1)), es[Len(es)])

ProjectsOf(f, entries) ==
    IF ListingThrows(f, entries)
    THEN [kind |-> "projects", status |-> 500, projects |-> <<>>]
    ELSE [kind |-> "projects", status |-> 200,
          projects |->
            SortByDate([i \in 1..Len(entries) |->
                ProjectEntry(entries[i],
                             ListingMeta(f, ProjectsDir \o <<entries[i]>>).obj,
                             f.birth[ProjectsDir \o <<entries[i]>>])])]

\* GET /api/projects: one entry for every directory of the projects
\* directory, latest upload first
ListProjects(f, rev) == ProjectsOf(f, ProjectDirs(f, rev))

\* res.sendFile(p): a name that starts with a dot is not served, a
\* directory is passed on to the next handler, which answers 404
SendFile(f, p) ==
    IF p # <<>> /\ StartsWith(p[Len(p)], <<".">>)
    THEN [status |-> 404, body |-> Text(<<>>)]
    ELSE IF ~IsFile(f, p) THEN [status |-> 404, body |-> Text(<<>>)]
    ELSE [status |-> 200, body |-> f.files[p]]

\* a metadata document whose release is the default version
serveMavenMetadataDefaultRelease(artifactId, groupId, version) ==
    [branch |-> "metadata", status |-> 200, type |-> "application/xml",
     groupId |-> OrElse(groupId, ConfigGroupId),
     artifactId |-> artifactId,
     latest |-> OrElse(version, W_defaultVersion),
     release |-> W_defaultVersion,
     versions |-> <<OrElse(version, W_defaultVersion)>>]

\* the XML document by its elements; versions holds the version elements
serveMavenMetadata(artifactId, groupId, version) ==
    [branch |-> "metadata", status |-> 200, type |-> "application/xml",
     groupId |-> OrElse(groupId, ConfigGroupId),
     artifactId |-> artifactId,
     latest |-> OrElse(version, W_defaultVersion),
     release |-> OrElse(version, W_defaultVersion),
     versions |-> <<OrElse(version, W_defaultVersion)>>]

\* a POM sent as text/xml
servePomTextXml(groupId, artifactId, version) ==
    [branch |-> "pom", status |-> 200, type |-> "text/xml",
     groupId |-> IF groupId # <<>> THEN groupId ELSE ConfigGroupId,
     artifactId |-> artifactId,
     version |-> version]

servePom(groupId, artifactId, version) ==
    [branch |-> "pom", status |-> 200, type |-> "application/xml",
     groupId |-> IF groupId # <<>> THEN groupId ELSE ConfigGroupId,
     artifactId |-> artifactId,
     version |-> version]

\* a packager that falls back to the project directory when the stored
\* source root is gone
serveProjectAsArchiveFallback(f, projectPath, srcMainPath, filename, rev) ==
    LET stored == IF srcMainPath # <<>> THEN JoinStr(projectPath, srcMainPath)
                  ELSE projectPath
        basePath == IF IsDir(f, stored) THEN stored ELSE projectPath
    IN  [branch |-> "archive", status |-> 200,
         type |-> "application/java-archive",
         disposition |-> [kind |-> "attachment", filename |-> filename],
         basePath |-> basePath,
         zip |-> addDirectoryToZip(<<>>, f, basePath, <<>>, rev)]

serveProjectAsArchive(f, projectPath, srcMainPath, filename, rev) ==
    LET basePath == IF srcMainPath # <<>> THEN JoinStr(projectPath, srcMainPath)
                    ELSE projectPath
    IN  IF ~Exists(f, basePath)
        THEN [branch |-> "archive", status |-> 404, body |-> "Source not found",
              basePath |-> basePath]
        ELSE IF ~IsDir(f, basePath)
        THEN [branch |-> "archive", status |-> 500,
              body |-> "Failed to create archive", basePath |-> basePath]
        ELSE [branch |-> "archive", status |-> 200,
              type |-> "application/java-archive",
              disposition |-> [kind |-> "attachment", filename |-> filename],
              basePath |-> basePath,
              zip |-> addDirectoryToZip(<<>>, f, basePath, <<>>, rev)]

\* a checksum taken over the bytes that the archive request packs
serveChecksumOfContent(f, artifactId, filename) ==
    IF ~Exists(f, PathJoin(ProjectsDir, artifactId))
    THEN [branch |-> "checksum", status |-> 404, body |-> "Not found"]
    ELSE [branch |-> "checksum", status |-> 200, type |-> "text/plain",
          hash |-> [algorithm |-> IF EndsWith(filename, Ext_sha1)
                                  THEN "sha1" ELSE "md5",
                    data |-> <<artifactId,
                               addDirectoryToZip(<<>>, f,
                                   PathJoin(ProjectsDir, artifactId), <<>>, FALSE)>>]]

\* the digest is a function of the hashed text and the algorithm alone
serveChecksum(f, artifactId, filename) ==
    LET projectPath == PathJoin(ProjectsDir, artifactId)
    IN  IF ~Exists(f, projectPath)
        THEN [branch |-> "checksum", status |-> 404, body |-> "Not found"]
        ELSE [branch |-> "checksum", status |-> 200, type |-> "text/plain",
              hash |-> [algorithm |-> IF EndsWith(filename, Ext_sha1)
                                      THEN "sha1" ELSE "md5",
                        data |-> <<artifactId,
                                   IF IsDir(f, projectPath)
                                   THEN f.mtime[projectPath] ELSE 0>>]]

\* a parse that takes the artifactId and the version one segment early
ParseCoordinateShifted(pathParts) ==
    LET n == Len(pathParts)
    IN  [filename |-> pathParts[n],
         version |-> pathParts[n - 2],
         artifactId |-> pathParts[n - 3],
         groupId |-> JoinWith(SubSeq(pathParts, 1, n - 3), <<".">>)]

\* the coordinate the dispatcher takes from the segments of a path
ParseCoordinate(pathParts) ==
    LET n == Len(pathParts)
    IN  [filename |-> pathParts[n],
         version |-> pathParts[n - 1],
         artifactId |-> pathParts[n - 2],
         groupId |-> JoinWith(SubSeq(pathParts, 1, n - 3), <<".">>)]

\* filename.endsWith('.sha1') || filename.endsWith('.md5')
IsChecksumName(filename) ==
    EndsWith(filename, Ext_sha1) \/ EndsWith(filename, Ext_md5)

\* an archive test that knows .jar alone
IsArchiveNameJarOnly(filename) == EndsWith(filename, Ext_jar)

\* filename.endsWith('.jar') || filename.endsWith('.zip')
IsArchiveName(filename) ==
    EndsWith(filename, Ext_jar) \/ EndsWith(filename, Ext_zip)

\* no coordinate: the request was not parsed
NoCoordinate ==
    [filename |-> <<>>, version |-> <<>>, artifactId |-> <<>>, groupId |-> <<>>]

\* router.get('/*'): the answer to a request for reqPath (the path below
\* the repository's base path, with its leading slash).  A request passed on
\* with next() finds no later route and is answered 404 by the framework.
Dispatch(f, reqPath, rev) ==
    IF reqPath = <<"/">> \/ StartsWith(reqPath, W_apiPrefix)
    THEN [kind |-> "repo", reqPath |-> reqPath, parsed |-> FALSE,
          coord |-> NoCoordinate,
          out |-> [branch |-> "next", status |-> 404, body |-> "Cannot GET"]]
    ELSE
    LET pathParts == SplitOn(Tail(reqPath), "/")
    IN  IF Len(pathParts) < 4
        THEN [kind |-> "repo", reqPath |-> reqPath, parsed |-> FALSE,
              coord |-> NoCoordinate,
              out |-> [branch |-> "short", status |-> 404, body |-> "Not found"]]
        ELSE
        LET c == ParseCoordinate(pathParts)
            projectPath == PathJoin(ProjectsDir, c.artifactId)
            srcMainPath == ReadMetaOrEmpty(f, projectPath).srcMainPath
            directPath == PathJoin(projectPath, c.filename)
            srcPath == PathJoin(JoinStr(projectPath, srcMainPath), c.filename)
            out ==
                IF c.filename = W_metadataXml
                THEN serveMavenMetadata(c.artifactId, c.groupId, c.version)
                ELSE IF IsChecksumName(c.filename)
                THEN serveChecksum(f, c.artifactId, c.filename)
                ELSE IF ~Exists(f, projectPath)
                THEN [branch |-> "noproject", status |-> 404,
                      body |-> "Artifact not found"]
                ELSE IF IsArchiveName(c.filename)
                THEN serveProjectAsArchive(f, projectPath, srcMainPath, c.filename, rev)
                ELSE IF EndsWith(c.filename, Ext_pom)
                THEN servePom(c.groupId, c.artifactId, c.version)
                ELSE IF Exists(f, directPath)
                THEN [branch |-> "direct", path |-> directPath,
                      status |-> SendFile(f, directPath).status,
                      file |-> SendFile(f, directPath).body]
                ELSE IF srcMainPath # <<>> /\ Exists(f, srcPath)
                THEN [branch |-> "source", path |-> srcPath,
                      status |-> SendFile(f, srcPath).status,
                      file |-> SendFile(f, srcPath).body]
                ELSE [branch |-> "nofile", status |-> 404,
                      body |-> "File not found"]
        IN  [kind |-> "repo", reqPath |-> reqPath, parsed |-> TRUE,
             coord |-> c, out |-> out]

(***************************************************************************)
(* Directory trees for the file utilities                                  *)
(***************************************************************************)

\* the tree with these files and these directories, and every directory
\* on the way to them
TreeOf(files, dirs) ==
    LET all == UNION {Prefixes(ParentPath(p)) : p \in DOMAIN files}
               \cup UNION {Prefixes(d) : d \in dirs} \cup {RootPath}
    IN  [dirs |-> all, mtime |-> [d \in all |-> 0],
         birth |-> [d \in all |-> 0], files |-> files]

WellFormedTree(t) ==
    /\ RootPath \in t.dirs
    /\ t.dirs \cap FilePaths(t) = {}
    /\ \A p \in t.dirs \cup FilePaths(t) :
           p # RootPath => ParentPath(p) \in t.dirs

CandidateFiles ==
    {<<MetaName>>, <<N_a, MetaName>>, <<N_Foo>>, <<N_a, N_b, N_Foo>>,
     <<N_b, N_src, N_main>>, <<N_src, N_main, MetaName>>,
     <<N_b, MetaName, N_Foo>>}

CandidateDirs ==
    {<<N_a, N_src, N_main>>, <<N_a, N_b, N_src, N_main>>, <<N_src, N_main>>,
     <<N_src, N_a, N_src, N_main>>}

UtilityTrees ==
    {t \in {TreeOf([p \in F |-> IF Len(p) = 1 THEN BytesA ELSE BytesB], D) :
              F \in SUBSET CandidateFiles, D \in SUBSET CandidateDirs} :
        WellFormedTree(t)}

(***************************************************************************)
(* The file utilities called on a tree                                     *)
(***************************************************************************)

NoRet == [op |-> "none"]

\* the session ids of the clients
SessionIds == {1, 2}

\* req.session of a client that never logged in
NoSession == [user |-> <<>>, usingDefaultPassword |-> FALSE]

NoSessions == [s \in SessionIds |-> NoSession]

InitIdle ==
    /\ sessions = NoSessions
    /\ users = <<>>
    /\ fs = EmptyTree
    /\ now = 0
    /\ req = [kind |-> "none"]
    /\ resp = [kind |-> "none"]
    /\ tasks = <<>>

InitTree ==
    /\ InitIdle
    /\ srcTree \in UtilityTrees
    /\ entryRev \in BOOLEAN
    /\ ret = NoRet

LocateCall ==
    /\ ret' = [op |-> "locate",
               found |-> findSrcMainFolder(srcTree, RootPath, entryRev)]
    /\ UNCHANGED <<fs, now, req, resp, tasks, srcTree, entryRev, sessions, users>>

PackCall ==
    \E base \in srcTree.dirs :
        /\ ret' = [op |-> "pack", base |-> base,
                   zip |-> addDirectoryToZip(<<>>, srcTree, base, <<>>, entryRev)]
        /\ UNCHANGED <<fs, now, req, resp, tasks, srcTree, entryRev, sessions, users>>

NextTree == LocateCall \/ PackCall

SpecTree == InitTree /\ [][NextTree]_vars

(***************************************************************************)
(* SpecCopy: copyDirectoryWithGitignore called on a source tree with a     *)
(* .gitignore, into an empty directory                                     *)
(***************************************************************************)

N_ftxt == <<"f", ".", "t", "x", "t">>
N_gtxt == <<"g", ".", "t", "x", "t">>

CopyCandidates ==
    {<<N_ftxt>>, <<N_a, N_ftxt>>, <<N_a, N_b, N_gtxt>>, <<N_a, N_gitignore>>,
     <<N_b, N_gtxt>>}

\* the .gitignore contents in use; the first stands for no .gitignore
CopyIgnoreFiles ==
    {<<>>,
     << <<"a", "/">> >>,
     << <<"*", ".", "t", "x", "t">> >>,
     << <<"f", ".", "t", "x", "t">> >>,
     << <<"/", "f", ".", "t", "x", "t">> >>,
     << <<"a", "/", "b">> >>,
     << <<"b">>, <<"#", " ", "a">> >>,
     << <<".", "g", "i", "t", "i", "g", "n", "o", "r", "e">> >>,
     << <<"*">> >>}

CopyTrees ==
    {TreeOf([p \in F |-> IF Len(p) = 1 THEN BytesA ELSE BytesB]
            @@ (IF g = <<>> THEN <<>> ELSE <<N_gitignore>> :> Text(g)), {}) :
        F \in SUBSET CopyCandidates, g \in CopyIgnoreFiles}

\* the directory the copy goes to
CopyDest == <<N_projects>>

InitCopy ==
    /\ InitIdle
    /\ srcTree \in CopyTrees
    /\ entryRev \in BOOLEAN
    /\ ret = [op |-> "none"]

\* copyDirectoryWithGitignore(src, dest) on the tree, no call failing
CopyTreeCall ==
    /\ ret.op = "none"
    /\ fs' = RunCopy(fs, srcTree,
                     copyDirectoryWithGitignore(srcTree, RootPath, CopyDest, entryRev),
                     1, 0, 1).fs
    /\ ret' = [op |-> "copy"]
    /\ UNCHANGED <<now, req, resp, tasks, srcTree, entryRev, sessions, users>>

NextCopy == CopyTreeCall

SpecCopy == InitCopy /\ [][NextCopy]_vars

(***************************************************************************)
(* Requests                                                                *)
(***************************************************************************)

W_admin == <<"a", "d", "m", "i", "n">>
W_demo == <<"d", "e", "m", "o">>

NoFail == [failAt |-> "none", failCall |-> 0]
FailAt(step, call) == [failAt |-> step, failCall |-> call]

\* the archives in use, as the trees they extract to
T_plain == TreeOf(<<N_src, N_main, N_Foo>> :> BytesA, {})
T_gradle ==
    TreeOf(<<N_src, N_main, N_Foo>> :> BytesB
           @@ <<N_gradle>> :> Text(<< <<"v", "e", "r", "s", "i", "o", "n", "=", "3", ".", "1">> >>), {})
T_bare == TreeOf(<<N_ftxt>> :> BytesB, {})
\* an archive whose .gitignore keeps its src directory from being copied
T_ignored ==
    TreeOf(<<N_src, N_main, N_Foo>> :> BytesA
           @@ <<N_gitignore>> :> Text(<< <<"s", "r", "c", "/">> >>)
           @@ <<N_ftxt>> :> BytesA, {})

\* archives that carry a file named like the sidecar: the JSON text null,
\* a text that is no JSON, and an empty file
T_nullMeta == TreeOf(<<MetaName>> :> Text(<<W_null>>) @@ <<N_ftxt>> :> BytesA, {})
T_badMeta == TreeOf(<<MetaName>> :> Text(<< <<"x">> >>) @@ <<N_ftxt>> :> BytesA, {})
T_emptyMeta == TreeOf(<<MetaName>> :> Text(<<>>) @@ <<N_ftxt>> :> BytesA, {})

\* the tree of a GitHub archive: everything below one root folder
Wrapped(t, top) ==
    [dirs |-> {RootPath} \cup {<<top>> \o d : d \in t.dirs},
     mtime |-> [d \in {RootPath} \cup {<<top>> \o e : e \in t.dirs} |-> 0],
     birth |-> [d \in {RootPath} \cup {<<top>> \o e : e \in t.dirs} |-> 0],
     files |-> [p \in {<<top>> \o q : q \in FilePaths(t)} |-> t.files[Tail(p)]]]

N_repoMain == <<"l", "i", "b", "-", "m", "a", "i", "n">>

UploadRequests(names, zips, fails) ==
    {[kind |-> "upload", originalname |-> n[1], projectName |-> n[2],
      zip |-> z, size |-> 1, user |-> W_admin,
      failAt |-> x.failAt, failCall |-> x.failCall] :
        n \in names, z \in zips, x \in fails}

CloneRequests(urls, names, zips, tagLists, fails) ==
    {[kind |-> "clone", url |-> u, branch |-> <<>>, projectName |-> n,
      zip |-> Wrapped(z, N_repoMain), tags |-> g, user |-> W_admin,
      failAt |-> x.failAt, failCall |-> x.failCall] :
        u \in urls, n \in names, z \in zips, g \in tagLists, x \in fails}

UpdateRequests(zips, tagLists, fails) ==
    {[kind |-> "update", zip |-> Wrapped(z, N_repoMain), tags |-> g,
      failAt |-> x.failAt, failCall |-> x.failCall] :
        z \in zips, g \in tagLists, x \in fails}

NoTags == [ok |-> FALSE, names |-> <<>>]
Tags(names) == [ok |-> TRUE, names |-> names]

\* the names in the projects directory
ProjectNames(f) == EntrySet(f, ProjectsDir)

\* the names a request may carry: those of the projects, or when there is
\* none a name that no project has
RequestNames(f) == IF ProjectNames(f) = {} THEN {W_demo} ELSE ProjectNames(f)

(***************************************************************************)
(* The operations on the project store, each handler run as a whole        *)
(***************************************************************************)

\* the handler's effect on the filesystem, and its response
Answered(r) ==
    /\ fs' = r.fs
    /\ resp' = r.resp

Upload(requests, max) ==
    \E in \in requests :
        /\ Cardinality(ProjectNames(fs)) < max
        /\ Answered(UploadHandler(fs, now, in, entryRev))
        /\ req' = in
        /\ UNCHANGED <<now, tasks, srcTree, entryRev, ret, sessions, users>>

Clone(requests, max) ==
    \E in \in requests :
        /\ Cardinality(ProjectNames(fs)) < max
        /\ Answered(CloneHandler(fs, now, in, entryRev))
        /\ req' = in
        /\ UNCHANGED <<now, tasks, srcTree, entryRev, ret, sessions, users>>

Update(requests) ==
    \E name \in RequestNames(fs), in \in requests :
        /\ Answered(UpdateHandler(fs, now, name, in, entryRev))
        /\ req' = [in EXCEPT !.kind = "update"] @@ [name |-> name]
        /\ UNCHANGED <<now, tasks, srcTree, entryRev, ret, sessions, users>>

Delete ==
    \E name \in RequestNames(fs) :
        /\ Answered(DeleteHandler(fs, now, name))
        /\ req' = [kind |-> "delete", name |-> name]
        /\ UNCHANGED <<now, tasks, srcTree, entryRev, ret, sessions, users>>

\* time passes between two requests
Tick(max) ==
    /\ now < max
    /\ now' = now + 1
    /\ UNCHANGED <<fs, req, resp, tasks, srcTree, entryRev, ret, sessions, users>>

InitServer ==
    /\ sessions = NoSessions
    /\ users = <<>>
    /\ fs = InitialFs
    /\ now = 1
    /\ req = [kind |-> "none"]
    /\ resp = [kind |-> "none"]
    /\ tasks = <<>>
    /\ srcTree = EmptyTree
    /\ entryRev = FALSE
    /\ ret = NoRet

(***************************************************************************)
(* Spec: uploads, clones, updates and deletions, one after the other, any  *)
(* step of which may fail with an I/O error                                *)
(***************************************************************************)

MaxStored == 1

N_libZip == <<"l", "i", "b", ".", "z", "i", "p">>
N_libVersionZip == <<"l", "i", "b", "-", "v", "2", ".", "0", ".", "1", ".", "z", "i", "p">>
W_libUrl == <<"h", "t", "t", "p", "s", ":", "/", "/", "g", "i", "t", "h", "u", "b", ".", "c", "o", "m", "/", "o", "/", "l", "i", "b", "-", "v", "2", ".", "0", ".", "1", ".", "g", "i", "t">>

StoreUploads ==
    UploadRequests({<<N_libZip, <<>> >>}, {T_plain, T_gradle}, {NoFail})
    \cup UploadRequests({<<N_libVersionZip, <<>> >>}, {T_gradle}, {NoFail})

StoreClones ==
    CloneRequests({W_libUrl}, {<<>>}, {T_plain, T_gradle},
                  {NoTags, Tags(<< <<"v", "3", ".", "0", ".", "0">> >>)},
                  {NoFail, FailAt("copy", 3), FailAt("write", 0)})

StoreUpdates ==
    UpdateRequests({T_gradle, T_bare},
                   {NoTags, Tags(<< <<"v", "1", ".", "9", ".", "0">>,
                                    <<"v", "1", ".", "1", "0", ".", "0">> >>)},
                   {NoFail})
    \cup UpdateRequests({T_bare}, {NoTags},
                        {FailAt("download", 0), FailAt("extract", 0),
                         FailAt("clear", 1), FailAt("copy", 2),
                         FailAt("write", 0)})

Next ==
    \/ Upload(StoreUploads, MaxStored)
    \/ Clone(StoreClones, MaxStored)
    \/ Update(StoreUpdates)
    \/ Delete

Spec == InitServer /\ [][Next]_vars

(***************************************************************************)
(* SpecNames: projects created and deleted under colliding names           *)
(***************************************************************************)

MaxProjects == 3

N_demoZip == <<"d", "e", "m", "o", ".", "z", "i", "p">>
W_demoUrl == <<"h", "t", "t", "p", "s", ":", "/", "/", "g", "i", "t", "h", "u", "b", ".", "c", "o", "m", "/", "o", "/", "d", "e", "m", "o">>
W_myLib == <<"m", "y", " ", "l", "i", "b">>

NameUploads ==
    UploadRequests({<<N_demoZip, <<>> >>, <<N_libZip, W_myLib>>},
                   {T_bare}, {NoFail, FailAt("copy", 2), FailAt("write", 0)})

NameClones ==
    CloneRequests({W_demoUrl, W_demo}, {<<>>}, {T_bare}, {NoTags}, {NoFail})

NextNames ==
    \/ Upload(NameUploads, MaxProjects)
    \/ Clone(NameClones, MaxProjects)
    \/ Delete

SpecNames == InitServer /\ [][NextNames]_vars

(***************************************************************************)
(* SpecRepo: requests to the repository routes for the projects uploaded   *)
(***************************************************************************)

MaxRepoProjects == 1
MaxTime == 2

N_com == <<"c", "o", "m">>
N_example == <<"e", "x", "a", "m", "p", "l", "e">>
N_api == <<"a", "p", "i">>
N_lib == <<"l", "i", "b">>
N_xjar == <<"x", ".", "j", "a", "r">>
N_xzip == <<"x", ".", "z", "i", "p">>
N_xpom == <<"x", ".", "p", "o", "m">>
N_xsha1 == <<"x", ".", "j", "a", "r", ".", "s", "h", "a", "1">>
N_xmd5 == <<"x", ".", "m", "d", "5">>
N_htxt == <<"h", ".", "t", "x", "t">>

\* a project with literal files named like the synthesized responses
T_repo ==
    TreeOf(<<N_xpom>> :> BytesA @@ <<N_xjar>> :> BytesA
           @@ <<N_xsha1>> :> BytesA @@ <<W_metadataXml>> :> BytesA
           @@ <<N_ftxt>> :> BytesA
           @@ <<N_src, N_main, N_gtxt>> :> BytesB
           @@ <<N_src, N_main, N_Foo>> :> BytesB, {})

N_demoVersionZip == <<"d", "e", "m", "o", "-", "v", "1", ".", "2", ".", "3", ".", "z", "i", "p">>
W_v123 == <<"1", ".", "2", ".", "3">>
N_demoJar == <<"d", "e", "m", "o", "-", "1", ".", "2", ".", "3", ".", "j", "a", "r">>

RepoUploads ==
    UploadRequests({<<N_demoZip, <<>> >>}, {T_repo, T_ignored, T_bare},
                   {NoFail, FailAt("write", 0)})
    \cup UploadRequests({<<N_demoVersionZip, W_demo>>}, {T_plain, T_gradle},
                        {NoFail})

RepoFilenames ==
    {W_metadataXml, N_xsha1, N_xmd5, N_xjar, N_xzip, N_xpom, N_ftxt, N_gtxt,
     N_htxt, N_src, MetaName}

\* the segments of the paths requested: up to two groupId segments, an
\* artifactId, a version and a filename, and paths too short for that
RepoSegments ==
    {g \o <<a, W_defaultVersion, n>> :
        g \in {<<>>, <<N_com>>, <<N_com, N_example>>, <<N_api, N_com>>},
        a \in {W_demo, N_lib}, n \in RepoFilenames}
    \cup {<<W_demo>>, <<N_api, W_demo>>, <<N_com, W_demo>>}
    \cup {<<N_com, N_example, W_demo, W_v123, N_demoJar>>,
          <<N_com, N_example, W_demo, W_v123, W_metadataXml>>,
          <<N_com, W_demo, <<>>, W_metadataXml>>}

\* the request path with these segments
PathOf(segs) == <<"/">> \o JoinWith(segs, <<"/">>)

Artifacts ==
    /\ req' = [kind |-> "artifacts"]
    /\ resp' = ListArtifacts(fs, entryRev)
    /\ UNCHANGED <<fs, now, tasks, srcTree, entryRev, ret, sessions, users>>

Projects ==
    /\ req' = [kind |-> "projects"]
    /\ resp' = ListProjects(fs, entryRev)
    /\ UNCHANGED <<fs, now, tasks, srcTree, entryRev, ret, sessions, users>>

GetProject ==
    \E name \in RequestNames(fs) :
        /\ req' = [kind |-> "project", name |-> name]
        /\ resp' = GetProjectHandler(fs, name, entryRev)
        /\ UNCHANGED <<fs, now, tasks, srcTree, entryRev, ret, sessions, users>>

Request(segments) ==
    \E segs \in segments :
        /\ req' = [kind |-> "repo", path |-> PathOf(segs), segs |-> segs]
        /\ resp' = Dispatch(fs, PathOf(segs), entryRev)
        /\ UNCHANGED <<fs, now, tasks, srcTree, entryRev, ret, sessions, users>>

NextRepo ==
    \/ Upload(RepoUploads, MaxRepoProjects)
    \/ Artifacts
    \/ Request(RepoSegments)
    \/ Tick(MaxTime)

SpecRepo == InitServer /\ [][NextRepo]_vars

(***************************************************************************)
(* SpecList: the two listings over projects whose sidecar is missing,      *)
(* unreadable or overwritten                                               *)
(***************************************************************************)

MaxListed == 2
MaxListTime == 2

\* an upload whose sidecar write fails leaves the project with the sidecar
\* file of its archive, or with none
ListUploads ==
    UploadRequests({<<N_demoZip, <<>> >>, <<N_libZip, <<>> >>},
                   {T_bare, T_nullMeta, T_badMeta, T_emptyMeta},
                   {NoFail, FailAt("write", 0)})

NextList ==
    \/ Upload(ListUploads, MaxListed)
    \/ Projects
    \/ Artifacts
    \/ Delete
    \/ Tick(MaxListTime)

SpecList == InitServer /\ [][NextList]_vars

(***************************************************************************)
(* SpecLife: a project is cloned, updated, read through every route and    *)
(* deleted, while time passes                                              *)
(***************************************************************************)

MaxLife == 1
MaxLifeTime == 2

\* an upstream archive with a file named like the sidecar and a .gitignore
\* that keeps g.txt out
T_upstream ==
    TreeOf(<<N_gtxt>> :> BytesA @@ <<N_xjar>> :> BytesB
           @@ <<MetaName>> :> Text(<<W_null>>)
           @@ <<N_gitignore>> :> Text(<< <<"g", ".", "t", "x", "t">> >>), {})

LifeClones ==
    CloneRequests({W_demoUrl}, {<<>>}, {T_plain, T_bare}, {NoTags}, {NoFail})

LifeUpdates ==
    UpdateRequests({T_plain, T_bare, T_upstream},
                   {NoTags, Tags(<< <<"v", "2", ".", "0">> >>)}, {NoFail})
    \cup UpdateRequests({T_bare}, {NoTags}, {FailAt("download", 0)})

LifeSegments ==
    {<<N_com, N_example, W_demo, W_defaultVersion, n>> :
        n \in {N_xjar, N_xzip, N_xpom, N_xsha1, N_xmd5, N_ftxt, N_Foo,
               W_metadataXml}}

NextLife ==
    \/ Clone(LifeClones, MaxLife)
    \/ Update(LifeUpdates)
    \/ Delete
    \/ Projects
    \/ Artifacts
    \/ GetProject
    \/ Request(LifeSegments)
    \/ Tick(MaxLifeTime)

SpecLife == InitServer /\ [][NextLife]_vars

(***************************************************************************)
(* SpecAsync: a clone is suspended while it downloads the archive and      *)
(* while it waits for the tag list; other requests are served meanwhile    *)
(***************************************************************************)

MaxTasks == 1
MaxAsyncProjects == 2

AsyncUploads == UploadRequests({<<N_demoZip, <<>> >>}, {T_bare}, {NoFail})

AsyncClones ==
    CloneRequests({W_demoUrl}, {<<>>}, {T_plain},
                  {NoTags, Tags(<< <<"v", "3", ".", "0", ".", "0">> >>)},
                  {NoFail, FailAt("download", 0), FailAt("write", 0)})

AsyncSegments ==
    {<<N_com, a, W_defaultVersion, n>> :
        a \in {W_demo, <<"d", "e", "m", "o", "-", "1">>}, n \in {N_xjar, N_xpom, N_ftxt}}

\* the sequence without its i-th element
RemoveAt(seq, i) == SubSeq(seq, 1, i - 1) \o SubSeq(seq, i + 1, Len(seq))

NoLocal == [finalName |-> <<>>]

\* POST /api/clone up to its first await: the request is rejected, or the
\* download starts
CloneBegin(requests, max) ==
    \E in \in requests :
        /\ Len(tasks) < max
        /\ req' = in
        /\ IF CloneRejected(in)
           THEN resp' = CloneRejection /\ tasks' = tasks
           ELSE /\ tasks' = Append(tasks, [kind |-> "clone", pc |-> "download",
                                           in |-> in, local |-> NoLocal])
                /\ resp' = resp
        /\ UNCHANGED <<fs, now, srcTree, entryRev, ret, sessions, users>>

\* the download has failed: the request is answered 500
CloneDownloadFailed ==
    \E i \in DOMAIN tasks :
        /\ tasks[i].kind = "clone" /\ tasks[i].pc = "download"
        /\ tasks[i].in.failAt = "download"
        /\ resp' = CloneFailed(<<>>)
        /\ tasks' = RemoveAt(tasks, i)
        /\ UNCHANGED <<fs, now, req, srcTree, entryRev, ret, sessions, users>>

\* the effect of the ingestion: it failed and the request is answered, or
\* the handler awaits the tag list
Ingested(i, a) ==
    /\ fs' = a.fs
    /\ IF a.failed
       THEN resp' = CloneFailed(a.local.finalName) /\ tasks' = RemoveAt(tasks, i)
       ELSE /\ resp' = resp
            /\ tasks' = [tasks EXCEPT ![i] = [kind |-> "clone", pc |-> "tags",
                                               in |-> tasks[i].in,
                                               local |-> a.local]]

\* the download has ended: the handler runs up to the await of the tags
CloneDownloaded(max) ==
    \E i \in DOMAIN tasks :
        /\ tasks[i].kind = "clone" /\ tasks[i].pc = "download"
        /\ tasks[i].in.failAt # "download"
        /\ Cardinality(ProjectNames(fs)) < max
        /\ Ingested(i, CloneIngest(fs, now, tasks[i].in, entryRev))
        /\ UNCHANGED <<now, req, srcTree, entryRev, ret, sessions, users>>

\* the tag list has been answered: the handler runs to its response
CloneTagsAnswered ==
    \E i \in DOMAIN tasks :
        /\ tasks[i].kind = "clone" /\ tasks[i].pc = "tags"
        /\ Answered(CloneFinish(fs, now, tasks[i].local, tasks[i].in.tags,
                                tasks[i].in.failAt = "write", entryRev))
        /\ tasks' = RemoveAt(tasks, i)
        /\ UNCHANGED <<now, req, srcTree, entryRev, ret, sessions, users>>

NextAsync ==
    \/ CloneBegin(AsyncClones, MaxTasks)
    \/ CloneDownloadFailed
    \/ CloneDownloaded(MaxAsyncProjects)
    \/ CloneTagsAnswered
    \/ Upload(AsyncUploads, MaxAsyncProjects)
    \/ Delete
    \/ Artifacts
    \/ Request(AsyncSegments)

SpecAsync == InitServer /\ [][NextAsync]_vars

(***************************************************************************)
(* Properties of the file utilities                                        *)
(***************************************************************************)

\* the directories named 'src', below the root, with a sub-directory 'main'
SrcDirsWithMain(t) ==
    {d \in t.dirs : /\ Len(d) >= 1
                    /\ d[Len(d)] = N_src
                    /\ IsDir(t, d \o <<N_main>>)}

\* p is reached before q by a depth-first traversal that looks at an entry,
\* then at everything below it, then at its next sibling
ReachedBefore(p, q, rev) ==
    \/ IsUnder(q, p)
    \/ \E i \in 1..Len(p) :
          /\ i <= Len(q)
          /\ SubSeq(p, 1, i - 1) = SubSeq(q, 1, i - 1)
          /\ p[i] # q[i]
          /\ ListedBefore(p[i], q[i], rev)

\* C4: packing a source root and unpacking the archive yields exactly the
\* regular files below that root, each at its relative path with its bytes,
\* minus only the project's metadata sidecar (the file MetaName directly in
\* the project directory).
C4_PackRoundTrip ==
    ret.op = "pack" =>
        Unpacked(ret.zip) =
            {<<SubSeq(p, Len(ret.base) + 1, Len(p)), srcTree.files[p]>> :
                p \in {q \in FilePaths(srcTree) :
                          IsUnder(q, ret.base) /\ q # <<MetaName>>}}

\* C5: locate returns none exactly when no directory 'src' with a
\* sub-directory 'main' exists below the root; otherwise it returns the
\* src/main of the one such 'src' that the depth-first, entry-order traversal
\* reaches first.
C5_LocateFirstInTraversal ==
    ret.op = "locate" =>
        LET M == SrcDirsWithMain(srcTree)
            r == ret.found
        IN  /\ r.found <=> M # {}
            /\ r.found =>
                  /\ Len(r.path) >= 2
                  /\ r.path[Len(r.path)] = N_main
                  /\ ParentPath(r.path) \in M
                  /\ \A m \in M \ {ParentPath(r.path)} :
                        ReachedBefore(ParentPath(r.path), m, entryRev)

\* C5 witness: both a/src/main and a/b/src/main exist and locate returned one
C5_Witness ==
    /\ ret.op = "locate"
    /\ IsDir(srcTree, <<N_a, N_src, N_main>>)
    /\ IsDir(srcTree, <<N_a, N_b, N_src, N_main>>)
    /\ ~IsDir(srcTree, <<N_src>>)
    /\ ret.found.found
    /\ ret.found.path = IF entryRev THEN <<N_a, N_src, N_main>>
                        ELSE <<N_a, N_b, N_src, N_main>>

(***************************************************************************)
(* Properties of the repository routes (SpecRepo)                          *)
(***************************************************************************)

\* the sidecar object stored for project `name`, NullMeta if there is none
StoredMeta(f, name) ==
    LET metaPath == ProjectsDir \o <<name, MetaName>>
    IN  IF IsFile(f, metaPath) /\ f.files[metaPath].kind = "json"
        THEN f.files[metaPath].obj ELSE NullMeta

\* the coordinate the segments spell: the last three, and the rest joined
CoordinateOf(segs) ==
    LET n == Len(segs)
    IN  [filename |-> segs[n], version |-> segs[n - 1], artifactId |-> segs[n - 2],
         groupId |-> JoinWith([i \in 1..(n - 3) |-> segs[i]], <<".">>)]

\* the request is one the dispatcher passes on: '/' or below '/api/'
PassedOn(segs) == segs = << <<>> >> \/ (Len(segs) >= 2 /\ segs[1] = N_api)

\* C1: for every request path other than '/' and those beginning '/api/',
\* n >= 4 segments are parsed as filename = segment n, version = segment
\* n-1, artifactId = segment n-2 and groupId = the first n-3 segments
\* joined with '.'; fewer than 4 segments are not parsed and answered 404;
\* a path beginning '/api/' is passed on unparsed whatever its length.
C1_ParsedUnlessPassedOn ==
    (req.kind = "repo" /\ resp.kind = "repo") =>
        IF PassedOn(req.segs)
        THEN ~resp.parsed /\ resp.out.branch = "next"
        ELSE IF Len(req.segs) >= 4
        THEN resp.parsed /\ resp.coord = CoordinateOf(req.segs)
        ELSE ~resp.parsed /\ resp.out.status = 404

\* C1 witness: a path with two groupId segments was parsed
C1_Witness ==
    /\ req.kind = "repo" /\ resp.kind = "repo"
    /\ req.segs = <<N_com, N_example, W_demo, W_defaultVersion, N_xjar>>
    /\ resp.parsed
    /\ resp.coord.groupId = <<"c", "o", "m", ".", "e", "x", "a", "m", "p", "l", "e">>
    /\ resp.coord.artifactId = W_demo

\* C1 as stated: every path with n >= 4 segments is parsed, every shorter
\* path is answered 404
C1_EveryPathParsed ==
    (req.kind = "repo" /\ resp.kind = "repo") =>
        IF Len(req.segs) >= 4
        THEN resp.parsed /\ resp.coord = CoordinateOf(req.segs)
        ELSE ~resp.parsed /\ resp.out.status = 404

\* the branch the fixed order of rules gives a coordinate; `literal` tells
\* what counts as a literal file of the project
FirstRule(f, c, literal(_)) ==
    LET projectPath == PathJoin(ProjectsDir, c.artifactId)
        stored == StoredMeta(f, c.artifactId).srcMainPath
        name == c.filename
        rules ==
            << <<name = W_metadataXml, "metadata">>,
               <<EndsWith(name, Ext_sha1) \/ EndsWith(name, Ext_md5), "checksum">>,
               <<~Exists(f, projectPath), "noproject">>,
               <<EndsWith(name, Ext_jar) \/ EndsWith(name, Ext_zip), "archive">>,
               <<EndsWith(name, Ext_pom), "pom">>,
               <<literal(PathJoin(projectPath, name)), "direct">>,
               <<stored # <<>>
                 /\ literal(PathJoin(PathJoinAll(projectPath, SplitOn(stored, "/")),
                                     name)), "source">>,
               <<TRUE, "nofile">> >>
        first == CHOOSE i \in 1..8 : rules[i][1] /\ \A j \in 1..(i - 1) : ~rules[j][1]
    IN  rules[first][2]

\* the filename is one that a synthesized response answers
Synthesized(name) ==
    \/ name = W_metadataXml
    \/ \E ext \in {Ext_sha1, Ext_md5, Ext_jar, Ext_zip, Ext_pom} : EndsWith(name, ext)

\* C2: every request with >= 4 segments whose path does not begin '/api/'
\* is answered by exactly the first applicable branch of the fixed order
\* metadata, checksum, no project, archive, POM, entry in the project
\* root, entry in the source root, 404 (an entry being a file or a
\* directory of that name); a literal file named like a synthesized
\* response is never served in its place.
C2_FirstApplicableBranch ==
    (req.kind = "repo" /\ resp.kind = "repo"
     /\ Len(req.segs) >= 4 /\ ~PassedOn(req.segs)) =>
        /\ resp.parsed
        /\ resp.out.branch =
              FirstRule(fs, CoordinateOf(req.segs), LAMBDA q : Exists(fs, q))
        /\ resp.out.branch \in {"direct", "source"} =>
              ~Synthesized(req.segs[Len(req.segs)])

\* C2 witness: the project holds a literal x.pom and the request for x.pom
\* was answered with the synthesized POM
C2_Witness ==
    /\ req.kind = "repo" /\ resp.kind = "repo"
    /\ req.segs = <<N_com, W_demo, W_defaultVersion, N_xpom>>
    /\ IsFile(fs, ProjectsDir \o <<W_demo, N_xpom>>)
    /\ resp.out.branch = "pom"

\* C2 as stated: every request with >= 4 segments, and a file for rules
\* (6) and (7)
C2_EveryRequestBranches ==
    (req.kind = "repo" /\ resp.kind = "repo" /\ Len(req.segs) >= 4) =>
        /\ resp.parsed
        /\ resp.out.branch =
              FirstRule(fs, CoordinateOf(req.segs), LAMBDA q : IsFile(fs, q))

\* the archive request answered, for a project that exists
ArchiveAnswered ==
    /\ req.kind = "repo" /\ resp.kind = "repo" /\ resp.parsed
    /\ resp.out.branch = "archive"
    /\ IsDir(fs, ProjectsDir \o <<resp.coord.artifactId>>)

\* the files below `base`, each at its relative path
FilesBelow(f, base) ==
    {<<SubSeq(q, Len(base) + 1, Len(q)), f.files[q]>> :
        q \in {r \in FilePaths(f) : IsUnder(r, base)}}

\* the archive holds nothing but files of the tree below `base`
PackedFrom(out, f, base) ==
    /\ out.status = 200
    /\ out.basePath = base
    /\ Unpacked(out.zip) \subseteq FilesBelow(f, base)

Answer(kind, status) ==
    req.kind = kind /\ resp.kind = kind /\ resp.status = status

\* the version the tag list of request r resolves to
TagVersionOf(r) == IF r.tags.ok THEN VersionFromTags(r.tags.names) ELSE <<>>

\* the version gradle.properties of the downloaded archive of r declares
GradleVersionOf(r) ==
    extractVersionFromGradleProperties(r.zip, <<N_repoMain>>, entryRev)

\* C6: the version stored at ingestion depends on the ingestion path.  A
\* ZIP upload stores the version pattern of the original filename if there
\* is one, else the gradle.properties version, else none; the upstream is
\* not consulted.  A clone stores the highest upstream version tag if
\* there is one, else the gradle.properties version, else none; an update
\* does the same and keeps the prior version when neither resolves.  The
\* name of the repository is never consulted: with a repository named
\* lib-v2.0.1 and an upstream tag v3.0.0 the stored version is 3.0.0.
C6_VersionPriorityByPath ==
    /\ Answer("upload", 200) =>
          StoredMeta(fs, resp.name).version =
              IF extractVersionFromFilename(req.originalname) # <<>>
              THEN extractVersionFromFilename(req.originalname)
              ELSE extractVersionFromGradleProperties(req.zip, RootPath, entryRev)
    /\ Answer("clone", 200) =>
          StoredMeta(fs, resp.name).version =
              IF TagVersionOf(req) # <<>> THEN TagVersionOf(req)
              ELSE GradleVersionOf(req)
    /\ Answer("update", 200) =>
          IF TagVersionOf(req) # <<>>
          THEN StoredMeta(fs, resp.name).version = TagVersionOf(req)
          ELSE GradleVersionOf(req) # <<>> =>
                  StoredMeta(fs, resp.name).version = GradleVersionOf(req)

\* C6 witness: a clone of the repository lib-v2.0.1 whose upstream has the
\* tag v3.0.0 stored the version 3.0.0
C6_Witness ==
    /\ Answer("clone", 200)
    /\ StoredMeta(fs, resp.name).originalFilename = <<"l", "i", "b", "-", "v", "2", ".", "0", ".", "1">>
    /\ req.tags = Tags(<< <<"v", "3", ".", "0", ".", "0">> >>)
    /\ StoredMeta(fs, resp.name).version = <<"3", ".", "0", ".", "0">>

\* C6 as stated: on every ingestion path a version pattern in the
\* project's original filename wins
C6_FilenameFirst ==
    \A kind \in {"upload", "clone", "update"} :
        Answer(kind, 200) =>
            LET meta == StoredMeta(fs, resp.name)
            IN  extractVersionFromFilename(meta.originalFilename) # <<>> =>
                    meta.version = extractVersionFromFilename(meta.originalFilename)

\* the name a create request asks for
RequestedName(r) ==
    IF r.projectName # <<>> THEN r.projectName
    ELSE IF r.kind = "upload" THEN Basename(r.originalname, Ext_zip)
    ELSE parseGitHubUrl(r.url).repo

\* name is `base`, or base-k for the smallest k >= 1 that was free in f
SmallestFree(f, base, name) ==
    IF ~Exists(f, ProjectsDir \o <<base>>) THEN name = base
    ELSE \E k \in 1..(MaxProjects + 1) :
            /\ name = base \o <<"-">> \o DecStr(k)
            /\ \A j \in 1..(k - 1) :
                  Exists(f, ProjectsDir \o <<base \o <<"-">> \o DecStr(j)>>)

\* everything below the projects directory of f is in g as it was
Kept(f, g) ==
    /\ \A q \in FilePaths(f) :
          IsUnder(q, ProjectsDir) => (IsFile(g, q) /\ g.files[q] = f.files[q])
    /\ \A d \in f.dirs : IsUnder(d, ProjectsDir) => IsDir(g, d)

\* C7: a create never writes into an existing project directory: the new
\* project gets the sanitized requested name if it is free and otherwise
\* sanitized-name-k for the smallest free k >= 1, every file, directory and
\* sidecar that existed is unchanged, and every project name matches
\* ^[A-Za-z0-9_-]+$.
C7_UniqueNames ==
    [][req'.kind \in {"upload", "clone"} =>
          /\ Kept(fs, fs')
          /\ \A m \in ProjectNames(fs') :
                m # <<>> /\ \A i \in 1..Len(m) : m[i] \in NameChars
          /\ (resp'.kind = req'.kind /\ resp'.status = 200) =>
                /\ ~Exists(fs, ProjectsDir \o <<resp'.name>>)
                /\ IsFile(fs', ProjectsDir \o <<resp'.name, MetaName>>)
                /\ SmallestFree(fs, Sanitize(RequestedName(req')), resp'.name)
      ]_vars

\* C7 witness: demo and demo-1 exist and the third create got demo-2
C7_Witness ==
    /\ req.kind \in {"upload", "clone"} /\ resp.kind = req.kind
    /\ resp.status = 200
    /\ resp.name = <<"d", "e", "m", "o", "-", "2">>
    /\ IsDir(fs, ProjectsDir \o <<W_demo>>)
    /\ IsDir(fs, ProjectsDir \o << <<"d", "e", "m", "o", "-", "1">> >>)
    /\ IsDir(fs, ProjectsDir \o << <<"d", "e", "m", "o", "-", "2">> >>)

\* C8: a successful update leaves originalFilename, uploadedAt, uploadedBy,
\* size, the upstream URL and the upstream branch of the sidecar as they
\* were; a stored version is never replaced by none, and the version
\* changes only to the one this update resolved from the tags or from
\* gradle.properties.
C8_UpdateFrame ==
    [][(req'.kind = "update" /\ resp'.kind = "update" /\ resp'.status = 200) =>
          LET old == StoredMeta(fs, resp'.name)
              new == StoredMeta(fs', resp'.name)
              resolved ==
                  IF TagVersionOf(req') # <<>> THEN TagVersionOf(req')
                  ELSE extractVersionFromGradleProperties(req'.zip, <<N_repoMain>>,
                                                          entryRev)
          IN  /\ new.originalFilename = old.originalFilename
              /\ new.uploadedAt = old.uploadedAt
              /\ new.uploadedBy = old.uploadedBy
              /\ new.size = old.size
              /\ new.githubUrl = old.githubUrl
              /\ new.githubBranch = old.githubBranch
              /\ old.version # <<>> => new.version # <<>>
              /\ new.version # old.version =>
                    (resolved # <<>> /\ new.version = resolved)
      ]_vars

\* C8 witness: an update that resolved no version (no tag list, no
\* gradle.properties) succeeded and the project still has its version
C8_Witness ==
    /\ Answer("update", 200)
    /\ ~req.tags.ok
    /\ req.zip = Wrapped(T_bare, N_repoMain)
    /\ StoredMeta(fs, resp.name).version # <<>>
    /\ StoredMeta(fs, resp.name).lastUpdated # 0

\* the files and directories of project `name`
ProjectTree(f, name) ==
    [dirs |-> {d \in f.dirs : IsUnder(d, ProjectsDir \o <<name>>)},
     files |-> {<<q, f.files[q]>> :
                   q \in {r \in FilePaths(f) : IsUnder(r, ProjectsDir \o <<name>>)}}]

\* C9: an update that fails leaves the project directory and the sidecar
\* as they were before the request.
C9_FailedUpdateKeepsProject ==
    [][(req'.kind = "update" /\ resp'.kind = "update" /\ resp'.status = 500) =>
          ProjectTree(fs', resp'.name) = ProjectTree(fs, resp'.name)
      ]_vars

(***************************************************************************)
(* Properties of concurrent requests (SpecAsync)                           *)
(***************************************************************************)

\* the response shows project `name`: the artifact listing lists it, or the
\* repository answered from its directory
Shows(r, name) ==
    \/ r.kind = "artifacts" /\ \E k \in DOMAIN r.artifacts : r.artifacts[k].name = name
    \/ /\ r.kind = "repo" /\ r.parsed /\ r.coord.artifactId = name
       /\ r.out.branch \in {"archive", "direct", "source", "nofile"}

\* C10: no artifact-listing or repository request served while a create
\* is in progress shows the new project directory without its sidecar.
C10_CreateAtomic ==
    [][(fs' = fs /\ tasks' = tasks
        /\ req'.kind \in {"artifacts", "repo"} /\ resp'.kind = req'.kind) =>
          \A i \in DOMAIN tasks :
              (tasks[i].kind = "clone" /\ tasks[i].pc = "tags") =>
                  \/ IsFile(fs, ProjectsDir \o <<tasks[i].local.finalName, MetaName>>)
                  \/ ~Shows(resp', tasks[i].local.finalName)
      ]_vars

(***************************************************************************)
(* C11: the listings and the state of the sidecars                         *)
(***************************************************************************)

\* the names a listing response shows, in its order
ListedNames(r) ==
    IF r.kind = "projects" THEN [i \in 1..Len(r.projects) |-> r.projects[i].name]
    ELSE [i \in 1..Len(r.artifacts) |-> r.artifacts[i].name]

\* the sidecar of this project is missing or does not hold an object
SidecarUnusable(f, name) ==
    ~(ListingMeta(f, ProjectsDir \o <<name>>).ok
      /\ ListingMeta(f, ProjectsDir \o <<name>>).isObject)

\* C11: a listing (project list or artifact list) succeeds whatever the
\* state of the sidecars, shows every project directory exactly once, and
\* shows the defaults (version 1.0.0, no source root, uploader unknown) for
\* a project whose sidecar is absent, empty, not JSON, or JSON null.
C11_ListingNeverFails ==
    resp.kind \in {"projects", "artifacts"} =>
        /\ resp.status = 200
        /\ Len(ListedNames(resp)) = Cardinality(ProjectNames(fs))
        /\ {ListedNames(resp)[i] : i \in 1..Len(ListedNames(resp))} = ProjectNames(fs)
        /\ resp.kind = "artifacts" =>
             \A i \in 1..Len(resp.artifacts) :
                SidecarUnusable(fs, resp.artifacts[i].name) =>
                    /\ resp.artifacts[i].version = W_defaultVersion
                    /\ resp.artifacts[i].srcMainPath = <<>>
        /\ resp.kind = "projects" =>
             \A i \in 1..Len(resp.projects) :
                SidecarUnusable(fs, resp.projects[i].name) =>
                    /\ resp.projects[i].uploadedBy = W_unknown
                    /\ resp.projects[i].srcMainPath = <<>>

(***************************************************************************)
(* C12: what the checksum depends on                                       *)
(***************************************************************************)

ChecksumSegments ==
    {<<N_com, N_example, W_demo, W_defaultVersion, n>> : n \in {N_xsha1, N_xmd5}}

\* the answer a checksum request gets in filesystem f
ChecksumIn(f, segs) == Dispatch(f, PathOf(segs), entryRev).out

\* C12: the digest of a checksum response is a function of the artifactId,
\* the project directory's modification time and the algorithm the suffix
\* names: over every step of the server (update, delete, clone, passing
\* time, any request) the digest a request returns before and after the
\* step is the same exactly when the directory's modification time is the
\* same, whatever happened to the files; the .sha1 and the .md5 digest
\* differ by the algorithm.
C12_ChecksumByMtime ==
    [][\A segs \in ChecksumSegments :
          /\ (ChecksumIn(fs, segs).status = 200 /\ ChecksumIn(fs', segs).status = 200)
                => ((ChecksumIn(fs, segs).hash = ChecksumIn(fs', segs).hash)
                    <=> (fs.mtime[ProjectsDir \o <<W_demo>>]
                            = fs'.mtime[ProjectsDir \o <<W_demo>>]))
          /\ ChecksumIn(fs', segs).status = 200
                => /\ ChecksumIn(fs', segs).hash.algorithm
                        = (IF EndsWith(segs[Len(segs)], Ext_sha1) THEN "sha1" ELSE "md5")
                   /\ ChecksumIn(fs', segs).type = "text/plain"
          /\ (resp'.kind = "repo" /\ resp'.out.branch = "checksum"
              /\ req'.segs = segs)
                => resp'.out = ChecksumIn(fs', segs)]_vars

\* a checksum is answered for a project whose files an update replaced
\* (x.jar comes with the updated archive alone) within the tick of its
\* creation, the directory's modification time unchanged
C12_Witness ==
    /\ resp.kind = "repo"
    /\ resp.out.branch = "checksum"
    /\ resp.out.status = 200
    /\ IsFile(fs, ProjectsDir \o <<W_demo, N_xjar>>)
    /\ fs.mtime[ProjectsDir \o <<W_demo>>] = StoredMeta(fs, W_demo).uploadedAt

(***************************************************************************)
(* C13: from the upload to the archive                                     *)
(***************************************************************************)

W_srcMain == <<"s", "r", "c", "/", "m", "a", "i", "n">>

\* project demo was created from demo-v1.2.3.zip, an archive whose source
\* directory holds src/main/Foo.java
CreatedFromVersionZip ==
    /\ StoredMeta(fs, W_demo).originalFilename = N_demoVersionZip
    /\ IsFile(fs, ProjectsDir \o <<W_demo, N_src, N_main, N_Foo>>)

\* C13: after a successful create of project demo from demo-v1.2.3.zip,
\* whose source directory holds src/main/Foo.java, the artifact listing
\* shows demo once, with version 1.2.3 and source root src/main, and the
\* request /com/example/demo/1.2.3/demo-1.2.3.jar is answered with an
\* archive whose only entry is Foo.java, with the bytes of the source.
C13_EndToEnd ==
    CreatedFromVersionZip =>
        /\ resp.kind = "artifacts" =>
              /\ resp.status = 200
              /\ Cardinality({i \in 1..Len(resp.artifacts) :
                                resp.artifacts[i].artifactId = W_demo}) = 1
              /\ \A i \in 1..Len(resp.artifacts) :
                    resp.artifacts[i].artifactId = W_demo =>
                        /\ resp.artifacts[i].version = W_v123
                        /\ resp.artifacts[i].srcMainPath = W_srcMain
        /\ (resp.kind = "repo"
            /\ req.segs = <<N_com, N_example, W_demo, W_v123, N_demoJar>>) =>
              /\ resp.out.branch = "archive"
              /\ resp.out.status = 200
              /\ Len(resp.out.zip) = 1
              /\ resp.out.zip[1].entryName = N_Foo
              /\ resp.out.zip[1].data
                    = fs.files[ProjectsDir \o <<W_demo, N_src, N_main, N_Foo>>]

\* the archive request is answered for the project created from
\* demo-v1.2.3.zip, whose gradle.properties names another version
C13_Witness ==
    /\ CreatedFromVersionZip
    /\ IsFile(fs, ProjectsDir \o <<W_demo, N_gradle>>)
    /\ resp.kind = "repo"
    /\ req.segs = <<N_com, N_example, W_demo, W_v123, N_demoJar>>
    /\ resp.out.status = 200

(***************************************************************************)
(* C14: the versions of maven-metadata.xml                                 *)
(***************************************************************************)

\* the version segment of the request: the last but one
VersionSegment(segs) == segs[Len(segs) - 1]

IgnoredByRoot(t, p) ==
    /\ loadGitignore(t, RootPath).present
    /\ \/ Ignores(loadGitignore(t, RootPath), p, FALSE)
       \/ \E k \in 1..(Len(p) - 1) :
              Ignores(loadGitignore(t, RootPath), SubSeq(p, 1, k), TRUE)

\* the files the copy is to bring over: those the root .gitignore does not
\* ignore, and the root .gitignore itself
FilesToCopy(t) ==
    {<<p, t.files[p]>> : p \in {q \in FilePaths(t) :
                                  q = <<N_gitignore>> \/ ~IgnoredByRoot(t, q)}}

\* C15: after the copy the destination holds exactly the source files that
\* neither match a pattern of the root .gitignore nor lie below a directory
\* that matches one, and the root .gitignore itself even when a pattern
\* matches it; with no .gitignore at the source root it holds every file.
C15_CopyHonorsGitignore ==
    ret.op = "copy" => FilesBelow(fs, CopyDest) = FilesToCopy(srcTree)

(***************************************************************************)
(* C16: what an update leaves in the project directory                     *)
(***************************************************************************)

\* the tree below `base`, with paths relative to it
SubTree(t, base) ==
    LET ds == {SubSeq(d, Len(base) + 1, Len(d)) :
                  d \in {e \in t.dirs : e = base \/ IsUnder(e, base)}}
    IN  [dirs |-> ds, mtime |-> [d \in ds |-> 0], birth |-> [d \in ds |-> 0],
         files |-> [q \in {SubSeq(r, Len(base) + 1, Len(r)) :
                             r \in {x \in FilePaths(t) : IsUnder(x, base)}} |->
                        t.files[base \o q]]]

\* the directories the copy is to create: those neither matched by the root
\* .gitignore nor below a matched one
DirsToCopy(t) ==
    {d \in t.dirs \ {RootPath} :
        ~(/\ loadGitignore(t, RootPath).present
          /\ \E k \in 1..Len(d) :
                Ignores(loadGitignore(t, RootPath), SubSeq(d, 1, k), TRUE))}

NotSidecar(S) == {x \in S : x[1] # <<MetaName>>}

\* C16: after a successful update the project directory holds exactly the
\* files and directories of the newly ingested source that its .gitignore
\* does not filter, plus the sidecar, which carries the time of the update;
\* nothing of the previous content is left, and an archive request and the
\* artifact listing that follow show the new content and metadata only.
C16_UpdateReplacesContent ==
    [][(resp'.kind = "update" /\ resp'.status = 200 /\ now' = now) =>
          LET P == ProjectsDir \o <<req'.name>>
              source == SubTree(req'.zip, <<N_repoMain>>)
              jar == Dispatch(fs', PathOf(<<N_com, N_example, req'.name,
                                            W_defaultVersion, N_xzip>>), entryRev).out
          IN  /\ NotSidecar(FilesBelow(fs', P)) = NotSidecar(FilesToCopy(source))
              /\ {SubSeq(d, Len(P) + 1, Len(d)) : d \in {e \in fs'.dirs : IsUnder(e, P)}}
                    = DirsToCopy(source)
              /\ IsFile(fs, P \o <<MetaName>>)
              /\ IsFile(fs', P \o <<MetaName>>)
              /\ StoredMeta(fs', req'.name).lastUpdated = now
              /\ jar.status = 200 =>
                    Unpacked(jar.zip) \subseteq
                        {<<SubSeq(x[1], Len(jar.basePath) - Len(P) + 1, Len(x[1])), x[2]>> :
                            x \in NotSidecar(FilesToCopy(source))}
              /\ \A i \in 1..Len(ListArtifacts(fs', entryRev).artifacts) :
                    ListArtifacts(fs', entryRev).artifacts[i].name = req'.name =>
                        ListArtifacts(fs', entryRev).artifacts[i].srcMainPath
                            = StoredMeta(fs', req'.name).srcMainPath]_vars

\* an update from the upstream archive has replaced the content of the
\* clone: x.jar is there, the ignored g.txt and the former files are not
C16_Witness ==
    /\ resp.kind = "update"
    /\ resp.status = 200
    /\ req.zip = Wrapped(T_upstream, N_repoMain)
    /\ IsFile(fs, ProjectsDir \o <<W_demo, N_xjar>>)
    /\ ~IsFile(fs, ProjectsDir \o <<W_demo, N_gtxt>>)
    /\ ~IsFile(fs, ProjectsDir \o <<W_demo, N_ftxt>>)
    /\ ~IsDir(fs, ProjectsDir \o <<W_demo, N_src>>)

(***************************************************************************)
(* C17: a deleted project stays away                                       *)
(***************************************************************************)

\* the repository requests that need the project: archive, POM, checksum
\* and direct file
NeedsProject(name) ==
    /\ name # W_metadataXml

\* C17: a delete that is acknowledged removes the project directory; and
\* while no project directory of name P exists, P is in no listing, every
\* get, update and delete request for P and every repository request for P
\* (archive, POM, checksum, direct file) is answered 404 and changes
\* nothing, and only a create request (upload or clone) brings a project of
\* that name into being.  (A step in which time passes serves no request.)
C17_DeletedStaysAbsent ==
    [][/\ (now' = now /\ resp'.kind = "delete" /\ resp'.status = 200) =>
              /\ Exists(fs, ProjectsDir \o <<req'.name>>)
              /\ ~Exists(fs', ProjectsDir \o <<req'.name>>)
       /\ \A P \in {W_demo} :
            (now' = now /\ ~Exists(fs, ProjectsDir \o <<P>>)) =>
              /\ (resp'.kind \in {"projects", "artifacts"}) =>
                    \A i \in 1..Len(ListedNames(resp')) : ListedNames(resp')[i] # P
              /\ (resp'.kind \in {"project", "update", "delete"} /\ req'.name = P) =>
                    /\ resp'.status = 404
                    /\ fs' = fs
              /\ (resp'.kind = "repo" /\ req'.kind = "repo"
                  /\ Len(req'.segs) >= 4
                  /\ req'.segs[Len(req'.segs) - 2] = P
                  /\ NeedsProject(req'.segs[Len(req'.segs)])) =>
                    /\ resp'.out.status = 404
                    /\ fs' = fs
              /\ Exists(fs', ProjectsDir \o <<P>>) =>
                    /\ req'.kind \in {"upload", "clone"}
                    /\ resp'.name = P]_vars

\* after a project was created and deleted (the projects directory was
\* written to and is empty), an archive request for it is answered 404
C17_Witness ==
    /\ fs.mtime[ProjectsDir] # 0
    /\ ~Exists(fs, ProjectsDir \o <<W_demo>>)
    /\ resp.kind = "repo"
    /\ req.segs = <<N_com, N_example, W_demo, W_defaultVersion, N_xjar>>
    /\ resp.out.status = 404

(***************************************************************************)
(* C18: short paths and unknown projects                                   *)
(***************************************************************************)

\* C18: the response to a request with fewer than 4 path segments has the
\* status and the body of the response to a well-formed request for a
\* project that does not exist.
C18_BadPathLikeNotFound ==
    (resp.kind = "repo" /\ resp.out.branch = "short"
     /\ ~Exists(fs, ProjectsDir \o <<N_lib>>)) =>
        LET unknown == Dispatch(fs, PathOf(<<N_com, N_example, N_lib,
                                             W_defaultVersion, N_xjar>>), entryRev).out
        IN  /\ unknown.status = resp.out.status
            /\ unknown.body = resp.out.body

(***************************************************************************)
(* C19: content types                                                      *)
(***************************************************************************)

\* the content type the suffix of the requested filename stands for, XML
\* documents being sent as `xml`
TypeBySuffix(name, xml) ==
    IF name = W_metadataXml THEN xml
    ELSE IF EndsWith(name, Ext_sha1) \/ EndsWith(name, Ext_md5) THEN "text/plain"
    ELSE IF EndsWith(name, Ext_jar) \/ EndsWith(name, Ext_zip)
    THEN "application/java-archive"
    ELSE IF EndsWith(name, Ext_pom) THEN xml
    ELSE "none"

\* a parsed request for a synthesized document was answered with status 200
SynthesizedAnswer ==
    /\ resp.kind = "repo" /\ req.kind = "repo" /\ resp.parsed
    /\ resp.out.status = 200
    /\ TypeBySuffix(req.segs[Len(req.segs)], "xml") # "none"

\* C19: in a response with status 200 the content type is fixed by the
\* suffix of the filename: maven-metadata.xml and .pom are application/xml,
\* .sha1/.md5 text/plain, .jar/.zip application/java-archive with a
\* Content-Disposition attachment that carries the requested filename.
C19_ContentTypeBySuffix ==
    SynthesizedAnswer =>
        /\ resp.out.type = TypeBySuffix(req.segs[Len(req.segs)], "application/xml")
        /\ resp.out.type = "application/java-archive" =>
              resp.out.disposition =
                  [kind |-> "attachment", filename |-> req.segs[Len(req.segs)]]

\* a POM is answered
C19_Witness ==
    /\ SynthesizedAnswer
    /\ req.segs[Len(req.segs)] = N_xpom
    /\ resp.out.branch = "pom"
    /\ resp.out.type = "application/xml"

\* C19 as stated: maven-metadata.xml and .pom are sent as text/xml
C19_XmlAsTextXml ==
    SynthesizedAnswer =>
        /\ resp.out.type = TypeBySuffix(req.segs[Len(req.segs)], "text/xml")
        /\ resp.out.type = "application/java-archive" =>
              resp.out.disposition =
                  [kind |-> "attachment", filename |-> req.segs[Len(req.segs)]]

(***************************************************************************)
(* C20: the version of a tag list                                          *)
(***************************************************************************)

MaxTags == 3

TagNames ==
    {<<"v", "1", ".", "9", ".", "0">>, <<"1", ".", "1", "0", ".", "0">>, <<"2", ".", "0">>, <<"v", "2", ".", "0", ".", "0">>, <<"0", ".", "9">>, <<"v", "0", "1", ".", "1", "0">>,
     <<"v", "1">>, <<"1", ".", "2", ".", "3", ".", "4">>, <<"l", "a", "t", "e", "s", "t">>, <<"v", "1", ".", "9", "-", "r", "c">>}

RECURSIVE TagListsOf(_)
TagListsOf(n) ==
    IF n = 0 THEN {<<>>}
    ELSE TagListsOf(n - 1) \cup
         {l \o <<t>> : l \in {k \in TagListsOf(n - 1) : Len(k) = n - 1}, t \in TagNames}

InitTags ==
    /\ sessions = NoSessions
    /\ users = <<>>
    /\ fs = EmptyTree
    /\ now = 0
    /\ resp = [kind |-> "none"]
    /\ tasks = <<>>
    /\ \E tags \in {NoTags} \cup {Tags(l) : l \in TagListsOf(MaxTags)} :
           req = [kind |-> "tags", tags |-> tags]
    /\ srcTree = EmptyTree
    /\ entryRev = FALSE
    /\ ret = NoRet

\* fetchGitHubVersion resolves for the tag list the API answered with
FetchTags ==
    /\ resp.kind = "none"
    /\ resp' = [kind |-> "tags", version |-> fetchGitHubVersion(req.tags)]
    /\ UNCHANGED <<fs, now, req, tasks, srcTree, entryRev, ret, sessions, users>>

NextTags == FetchTags

SpecTags == InitTags /\ [][NextTags]_vars

\* name is v?N.N or v?N.N.N
HasTagForm(name) ==
    LET parts == SplitOn(StripV(name), ".")
    IN  /\ Len(parts) \in {2, 3}
        /\ \A i \in 1..Len(parts) :
               /\ parts[i] # <<>>
               /\ \A k \in 1..Len(parts[i]) : parts[i][k] \in Digits

\* the components of a version as numbers, missing ones read as 0
NumTuple(v) ==
    LET parts == SplitOn(v, ".")
    IN  [i \in 1..3 |-> IF i <= Len(parts) THEN ToNumber(parts[i]) ELSE 0]

\* a is not below b, the first component being the most significant
TupleGeq(a, b) ==
    \/ a = b
    \/ \E i \in 1..3 : a[i] > b[i] /\ \A j \in 1..(i - 1) : a[j] = b[j]

\* the versions the tags of the list contribute
TagVersions(names) ==
    {StripV(names[i]) : i \in {k \in 1..Len(names) : HasTagForm(names[k])}}

\* C20: the version resolved from a tag list is the name, without its
\* leading v, of a tag of the form v?N.N or v?N.N.N, and no such tag of the
\* list is above it under numeric component-wise comparison with missing
\* components read as 0; a list without such a tag yields no version.
C20_TagVersionMaximal ==
    (resp.kind = "tags" /\ req.tags.ok) =>
        LET cands == TagVersions(req.tags.names)
        IN  IF cands = {} THEN resp.version = <<>>
            ELSE /\ resp.version \in cands
                 /\ \A c \in cands : TupleGeq(NumTuple(resp.version), NumTuple(c))

\* 1.10.0 is chosen over 1.9.0, and among tags that do not count
C20_Witness ==
    /\ resp.kind = "tags" /\ req.tags.ok
    /\ \E i, j, k \in 1..Len(req.tags.names) :
           /\ req.tags.names[i] = <<"v", "1", ".", "9", ".", "0">>
           /\ req.tags.names[j] = <<"1", ".", "1", "0", ".", "0">>
           /\ req.tags.names[k] = <<"1", ".", "2", ".", "3", ".", "4">>
    /\ resp.version = <<"1", ".", "1", "0", ".", "0">>

(***************************************************************************)
(* Sessions, login and the users of config.json (routes/auth.js,           *)
(* middleware/auth.js)                                                     *)
(***************************************************************************)

\* config.auth.defaultPassword
DefaultPassword == <<"a", "d", "m", "i", "n", "1", "2", "3">>

P_one == <<"s", "e", "c", "r", "e", "t", "1">>
P_two == <<"h", "u", "n", "t", "e", "r", "2", "2">>
P_short == <<"a", "b", "c">>
W_bob == <<"b", "o", "b">>

\* bcrypt.hash(password, 10) and bcrypt.compare(password, hash): the hash
\* is kept as the record of what was hashed
Hash(password) == [bcrypt |-> password]
Compare(password, hash) == hash.bcrypt = password

\* config.auth.users.findIndex(u => u.username === username), 0 for -1
FindUser(us, username) ==
    LET hits == {i \in 1..Len(us) : us[i].username = username}
    IN  IF hits = {} THEN 0 ELSE CHOOSE i \in hits : \A j \in hits : i <= j

U_files == <<"/", "f", "i", "l", "e", "s">>
U_login == <<"/", "a", "u", "t", "h", "/", "l", "o", "g", "i", "n">>
U_settings == <<"/", "a", "u", "t", "h", "/", "s", "e", "t", "t", "i", "n", "g", "s">>
U_changePassword == <<"/", "a", "u", "t", "h", "/", "c", "h", "a", "n", "g", "e", "-", "p", "a", "s", "s", "w", "o", "r", "d">>
U_me == <<"/", "a", "u", "t", "h", "/", "m", "e">>
U_logout == <<"/", "a", "u", "t", "h", "/", "l", "o", "g", "o", "u", "t">>
U_users == <<"/", "a", "u", "t", "h", "/", "u", "s", "e", "r", "s">>
U_forceChange == <<"/", "a", "u", "t", "h", "/", "s", "e", "t", "t", "i", "n", "g", "s", "?", "f", "o", "r", "c", "e", "C", "h", "a", "n", "g", "e", "=", "t", "r", "u", "e">>
U_upload == <<"/", "f", "i", "l", "e", "s", "/", "a", "p", "i", "/", "u", "p", "l", "o", "a", "d">>
U_clone == <<"/", "f", "i", "l", "e", "s", "/", "a", "p", "i", "/", "c", "l", "o", "n", "e">>
U_projects == <<"/", "f", "i", "l", "e", "s", "/", "a", "p", "i", "/", "p", "r", "o", "j", "e", "c", "t", "s", "/">>
U_update == <<"/", "u", "p", "d", "a", "t", "e">>
U_password == <<"/", "p", "a", "s", "s", "w", "o", "r", "d">>

PASSWORD_CHANGE_ALLOWED_PATHS ==
    {U_settings, U_changePassword, U_me, U_logout, U_users}

isPasswordChangeAllowedPath(originalUrl) ==
    LET urlPath == SplitOn(originalUrl, "?")[1]
    IN  \E path \in PASSWORD_CHANGE_ALLOWED_PATHS : StartsWith(urlPath, path)

\* a requireAuth that looks at the login only
requireAuthLoginOnly(session, originalUrl, json) ==
    IF session.user # <<>>
    THEN [next |-> TRUE, status |-> 0, location |-> <<>>]
    ELSE IF json
    THEN [next |-> FALSE, status |-> 401, location |-> <<>>]
    ELSE [next |-> FALSE, status |-> 302, location |-> U_login]

\* requireAuth: next() or the answer it gives itself; json is whether the
\* request is an XHR or accepts application/json
requireAuth(session, originalUrl, json) ==
    IF session.user # <<>>
    THEN IF session.usingDefaultPassword /\ ~isPasswordChangeAllowedPath(originalUrl)
         THEN IF json
              THEN [next |-> FALSE, status |-> 403, location |-> U_forceChange]
              ELSE [next |-> FALSE, status |-> 302, location |-> U_forceChange]
         ELSE [next |-> TRUE, status |-> 0, location |-> <<>>]
    ELSE IF json
    THEN [next |-> FALSE, status |-> 401, location |-> <<>>]
    ELSE [next |-> FALSE, status |-> 302, location |-> U_login]

\* POST /auth/login
LoginHandler(us, session, username, password) ==
    IF username = <<>> \/ password = <<>>
    THEN [session |-> session, status |-> 400, redirect |-> <<>>]
    ELSE
    LET i == FindUser(us, username)
        isDefaultPassword == password = DefaultPassword
    IN  IF i = 0
        THEN IF username = W_admin /\ isDefaultPassword
             THEN [session |-> [user |-> W_admin, usingDefaultPassword |-> TRUE],
                   status |-> 200, redirect |-> U_forceChange]
             ELSE [session |-> session, status |-> 401, redirect |-> <<>>]
        ELSE IF Compare(password, us[i].password)
        THEN [session |-> [user |-> us[i].username, usingDefaultPassword |-> FALSE],
              status |-> 200, redirect |-> U_files]
        ELSE IF isDefaultPassword
        THEN [session |-> [user |-> us[i].username, usingDefaultPassword |-> TRUE],
              status |-> 200, redirect |-> U_forceChange]
        ELSE [session |-> session, status |-> 401, redirect |-> <<>>]

\* POST /auth/change-password up to bcrypt.hash: the status it answers
\* with, 0 when it goes on to hash the new password
ChangePasswordChecks(us, username, currentPassword, newPassword) ==
    IF currentPassword = <<>> \/ newPassword = <<>> THEN 400
    ELSE IF Len(newPassword) < 6 THEN 400
    ELSE IF newPassword = DefaultPassword THEN 400
    ELSE LET userIndex == FindUser(us, username)
             isValidCurrent ==
                 \/ userIndex > 0 /\ Compare(currentPassword, us[userIndex].password)
                 \/ currentPassword = DefaultPassword
         IN  IF ~isValidCurrent THEN 401 ELSE 0

\* the loaded config with the password of username set: the entry at the
\* index found when the config was loaded, or a new entry
WithPassword(config, username, password) ==
    LET userIndex == FindUser(config, username)
    IN  IF userIndex > 0
        THEN [config EXCEPT ![userIndex].password = Hash(password)]
        ELSE Append(config, [username |-> username, password |-> Hash(password)])

\* /^[a-zA-Z0-9_-]+$/
IsUsername(username) ==
    /\ username # <<>>
    /\ \A i \in 1..Len(username) : username[i] \in NameChars

\* POST /auth/users after the admin check, up to bcrypt.hash
CreateUserChecks(us, username, password) ==
    IF username = <<>> \/ password = <<>> THEN 400
    ELSE IF ~IsUsername(username) THEN 400
    ELSE IF Len(password) < 6 THEN 400
    ELSE IF FindUser(us, username) > 0 THEN 400
    ELSE 0

\* PUT /auth/users/:username/password after the admin check, up to
\* bcrypt.hash
ResetPasswordChecks(password) ==
    IF password = <<>> THEN 400
    ELSE IF Len(password) < 6 THEN 400
    ELSE 0

\* a delete that does not spare the admin
DeleteUserHandlerAny(us, targetUsername) ==
    LET userIndex == FindUser(us, targetUsername)
    IN  IF userIndex = 0 THEN [users |-> us, status |-> 404]
        ELSE [users |-> RemoveAt(us, userIndex), status |-> 200]

\* DELETE /auth/users/:username after the admin check
DeleteUserHandler(us, targetUsername) ==
    IF targetUsername = W_admin THEN [users |-> us, status |-> 400]
    ELSE LET userIndex == FindUser(us, targetUsername)
         IN  IF userIndex = 0 THEN [users |-> us, status |-> 404]
             ELSE [users |-> RemoveAt(us, userIndex), status |-> 200]

\* GET /auth/users after the admin check
ListUsersHandler(us) ==
    LET listed == [i \in 1..Len(us) |->
                      [username |-> us[i].username, usingDefaultPassword |-> FALSE]]
    IN  IF \E i \in 1..Len(us) : us[i].username = W_admin THEN listed
        ELSE <<[username |-> W_admin, usingDefaultPassword |-> TRUE]>> \o listed

(***************************************************************************)
(* The requests of the clients, by session                                 *)
(***************************************************************************)

\* what requireAuth answers when it does not call next()
Rejected(gate) ==
    [kind |-> "rejected", status |-> gate.status, location |-> gate.location]

\* the answer of the admin check of the user routes
AdminRequired == [kind |-> "rejected", status |-> 403, location |-> <<>>]

Login(names, passwords) ==
    \E s \in SessionIds, username \in names, password \in passwords :
        LET r == LoginHandler(users, sessions[s], username, password)
        IN  /\ sessions' = [sessions EXCEPT ![s] = r.session]
            /\ req' = [kind |-> "login", session |-> s, username |-> username,
                       password |-> password]
            /\ resp' = [kind |-> "login", status |-> r.status,
                        redirect |-> r.redirect]
            /\ UNCHANGED <<fs, now, tasks, srcTree, entryRev, ret, users>>

\* POST /auth/logout: req.session.destroy
Logout ==
    \E s \in SessionIds :
        /\ sessions' = [sessions EXCEPT ![s] = NoSession]
        /\ req' = [kind |-> "logout", session |-> s]
        /\ resp' = [kind |-> "logout", status |-> 200]
        /\ UNCHANGED <<fs, now, tasks, srcTree, entryRev, ret, users>>

\* a request answered before its handler awaits anything
AnsweredAtOnce(answer) ==
    /\ resp' = answer
    /\ tasks' = tasks

\* a request suspended at bcrypt.hash, holding the config it loaded
Suspended(task) ==
    /\ resp' = [kind |-> "pending"]
    /\ tasks' = Append(tasks, task)

\* POST /auth/change-password up to the await of bcrypt.hash
ChangePasswordBegin(passwords, max) ==
    \E s \in SessionIds, json \in BOOLEAN,
       currentPassword \in passwords, newPassword \in passwords :
        LET gate == requireAuth(sessions[s], U_changePassword, json)
            username == sessions[s].user
            status == ChangePasswordChecks(users, username, currentPassword,
                                           newPassword)
        IN  /\ Len(tasks) < max
            /\ req' = [kind |-> "changePassword", session |-> s,
                       currentPassword |-> currentPassword,
                       newPassword |-> newPassword]
            /\ IF ~gate.next THEN AnsweredAtOnce(Rejected(gate))
               ELSE IF status # 0
               THEN AnsweredAtOnce([kind |-> "changePassword", status |-> status,
                                    session |-> s, username |-> username,
                                    password |-> newPassword])
               ELSE Suspended([kind |-> "changePassword", session |-> s,
                               username |-> username, password |-> newPassword,
                               config |-> users])
            /\ UNCHANGED <<fs, now, srcTree, entryRev, ret, sessions, users>>

\* bcrypt.hash has resolved: the loaded config is changed and saved, and
\* the session's flag cleared
ChangePasswordFinish ==
    \E i \in DOMAIN tasks :
        /\ tasks[i].kind = "changePassword"
        /\ users' = WithPassword(tasks[i].config, tasks[i].username,
                                 tasks[i].password)
        /\ sessions' = [sessions EXCEPT
                           ![tasks[i].session].usingDefaultPassword = FALSE]
        /\ resp' = [kind |-> "changePassword", status |-> 200,
                    session |-> tasks[i].session,
                    username |-> tasks[i].username,
                    password |-> tasks[i].password]
        /\ tasks' = RemoveAt(tasks, i)
        /\ UNCHANGED <<fs, now, req, srcTree, entryRev, ret>>

\* GET /auth/users
ListUsers ==
    \E s \in SessionIds, json \in BOOLEAN :
        LET gate == requireAuth(sessions[s], U_users, json)
        IN  /\ req' = [kind |-> "listUsers", session |-> s]
            /\ resp' = IF ~gate.next THEN Rejected(gate)
                       ELSE IF sessions[s].user # W_admin THEN AdminRequired
                       ELSE [kind |-> "listUsers", status |-> 200,
                             users |-> ListUsersHandler(users)]
            /\ UNCHANGED <<fs, now, tasks, srcTree, entryRev, ret, sessions, users>>

\* POST /auth/users up to the await of bcrypt.hash
CreateUserBegin(names, passwords, max) ==
    \E s \in SessionIds, json \in BOOLEAN,
       username \in names, password \in passwords :
        LET gate == requireAuth(sessions[s], U_users, json)
            status == CreateUserChecks(users, username, password)
        IN  /\ Len(tasks) < max
            /\ req' = [kind |-> "createUser", session |-> s,
                       username |-> username, password |-> password]
            /\ IF ~gate.next THEN AnsweredAtOnce(Rejected(gate))
               ELSE IF sessions[s].user # W_admin THEN AnsweredAtOnce(AdminRequired)
               ELSE IF status # 0
               THEN AnsweredAtOnce([kind |-> "createUser", status |-> status,
                                    username |-> username, password |-> password])
               ELSE Suspended([kind |-> "createUser", session |-> s,
                               username |-> username, password |-> password,
                               config |-> users])
            /\ UNCHANGED <<fs, now, srcTree, entryRev, ret, sessions, users>>

\* bcrypt.hash has resolved: the user is pushed onto the loaded config,
\* which is saved
CreateUserFinish ==
    \E i \in DOMAIN tasks :
        /\ tasks[i].kind = "createUser"
        /\ users' = Append(tasks[i].config,
                           [username |-> tasks[i].username,
                            password |-> Hash(tasks[i].password)])
        /\ resp' = [kind |-> "createUser", status |-> 200,
                    username |-> tasks[i].username,
                    password |-> tasks[i].password]
        /\ tasks' = RemoveAt(tasks, i)
        /\ UNCHANGED <<fs, now, req, srcTree, entryRev, ret, sessions>>

\* PUT /auth/users/:username/password up to the await of bcrypt.hash
ResetPasswordBegin(names, passwords, max) ==
    \E s \in SessionIds, json \in BOOLEAN,
       targetUsername \in names, password \in passwords :
        LET gate == requireAuth(sessions[s],
                                U_users \o <<"/">> \o targetUsername \o U_password,
                                json)
            status == ResetPasswordChecks(password)
        IN  /\ Len(tasks) < max
            /\ req' = [kind |-> "resetPassword", session |-> s,
                       username |-> targetUsername, password |-> password]
            /\ IF ~gate.next THEN AnsweredAtOnce(Rejected(gate))
               ELSE IF sessions[s].user # W_admin THEN AnsweredAtOnce(AdminRequired)
               ELSE IF status # 0
               THEN AnsweredAtOnce([kind |-> "resetPassword", status |-> status,
                                    username |-> targetUsername,
                                    password |-> password])
               ELSE Suspended([kind |-> "resetPassword", session |-> s,
                               username |-> targetUsername,
                               password |-> password, config |-> users])
            /\ UNCHANGED <<fs, now, srcTree, entryRev, ret, sessions, users>>

ResetPasswordFinish ==
    \E i \in DOMAIN tasks :
        /\ tasks[i].kind = "resetPassword"
        /\ users' = WithPassword(tasks[i].config, tasks[i].username,
                                 tasks[i].password)
        /\ resp' = [kind |-> "resetPassword", status |-> 200,
                    username |-> tasks[i].username,
                    password |-> tasks[i].password]
        /\ tasks' = RemoveAt(tasks, i)
        /\ UNCHANGED <<fs, now, req, srcTree, entryRev, ret, sessions>>

\* DELETE /auth/users/:username
DeleteUser(names) ==
    \E s \in SessionIds, json \in BOOLEAN, targetUsername \in names :
        LET gate == requireAuth(sessions[s], U_users \o <<"/">> \o targetUsername,
                                json)
            r == DeleteUserHandler(users, targetUsername)
        IN  /\ req' = [kind |-> "deleteUser", session |-> s,
                       username |-> targetUsername]
            /\ IF ~gate.next THEN resp' = Rejected(gate) /\ users' = users
               ELSE IF sessions[s].user # W_admin
               THEN resp' = AdminRequired /\ users' = users
               ELSE /\ resp' = [kind |-> "deleteUser", status |-> r.status,
                                username |-> targetUsername]
                    /\ users' = r.users
            /\ UNCHANGED <<fs, now, tasks, srcTree, entryRev, ret, sessions>>

\* a write to the project store behind requireAuth: the handler runs for
\* the user of the session, or requireAuth answers
Guarded(s, json, originalUrl, in, r) ==
    LET gate == requireAuth(sessions[s], originalUrl, json)
    IN  /\ req' = in @@ [session |-> s]
        /\ IF gate.next THEN Answered(r)
           ELSE fs' = fs /\ resp' = Rejected(gate)
        /\ UNCHANGED <<now, tasks, srcTree, entryRev, ret, sessions, users>>

AuthUpload(requests, max) ==
    \E s \in SessionIds, json \in BOOLEAN, in \in requests :
        /\ Cardinality(ProjectNames(fs)) < max
        /\ Guarded(s, json, U_upload, in,
                   UploadHandler(fs, now, [in EXCEPT !.user = sessions[s].user],
                                 entryRev))

AuthClone(requests, max) ==
    \E s \in SessionIds, json \in BOOLEAN, in \in requests :
        /\ Cardinality(ProjectNames(fs)) < max
        /\ Guarded(s, json, U_clone, in,
                   CloneHandler(fs, now, [in EXCEPT !.user = sessions[s].user],
                                entryRev))

AuthUpdate(requests) ==
    \E s \in SessionIds, json \in BOOLEAN,
       name \in RequestNames(fs), in \in requests :
        Guarded(s, json, U_projects \o name \o U_update,
                [in EXCEPT !.kind = "update"] @@ [name |-> name],
                UpdateHandler(fs, now, name, in, entryRev))

AuthDelete ==
    \E s \in SessionIds, json \in BOOLEAN, name \in RequestNames(fs) :
        Guarded(s, json, U_projects \o name,
                [kind |-> "delete", name |-> name],
                DeleteHandler(fs, now, name))

(***************************************************************************)
(* SpecAuth: two clients log in and out, change passwords and write to     *)
(* the project store                                                       *)
(***************************************************************************)

MaxAuthProjects == 1
MaxAuthTasks == 1

AuthNames == {W_admin, W_bob}
AuthPasswords == {DefaultPassword, P_one}

AuthUploads == UploadRequests({<<N_demoZip, <<>> >>}, {T_bare}, {NoFail})
AuthClones == CloneRequests({W_demoUrl}, {<<>>}, {T_bare}, {NoTags}, {NoFail})
AuthUpdates == UpdateRequests({T_plain}, {NoTags}, {NoFail})

NextAuth ==
    \/ Login(AuthNames, AuthPasswords)
    \/ Logout
    \/ ChangePasswordBegin(AuthPasswords, MaxAuthTasks)
    \/ ChangePasswordFinish
    \/ AuthUpload(AuthUploads, MaxAuthProjects)
    \/ AuthClone(AuthClones, MaxAuthProjects)
    \/ AuthUpdate(AuthUpdates)
    \/ AuthDelete

SpecAuth == InitServer /\ [][NextAuth]_vars

(***************************************************************************)
(* C21: who may write to the project store                                 *)
(***************************************************************************)

WriteKinds == {"upload", "clone", "update", "delete"}

\* the step is the handling of a write request to the project store
WriteStep == req'.kind \in WriteKinds /\ tasks' = tasks /\ sessions' = sessions

\* the step answers a change-password request of session s with success
ChangePasswordSucceeds(s) ==
    /\ tasks' # tasks
    /\ resp'.kind = "changePassword" /\ resp'.status = 200 /\ resp'.session = s

\* the step is a login of session s with a password stored for the user
LoginWithStoredPassword(s) ==
    /\ req'.kind = "login" /\ req'.session = s /\ resp'.kind = "login"
    /\ resp'.status = 200 /\ resp'.redirect = U_files
    /\ FindUser(users, req'.username) > 0
    /\ Compare(req'.password, users[FindUser(users, req'.username)].password)

\* the project store changes only in a write request of a session that is
\* logged in and not flagged; the other write requests are rejected
WritesGuarded ==
    /\ fs' # fs =>
          /\ WriteStep
          /\ sessions[req'.session].user # <<>>
          /\ ~sessions[req'.session].usingDefaultPassword
    /\ (WriteStep /\ sessions[req'.session].user = <<>>) =>
          /\ fs' = fs
          /\ resp'.kind = "rejected"
          /\ \/ resp'.status = 401
             \/ resp'.status = 302 /\ resp'.location = U_login
    /\ (WriteStep /\ sessions[req'.session].user # <<>>
        /\ sessions[req'.session].usingDefaultPassword) =>
          /\ fs' = fs
          /\ resp'.kind = "rejected"
          /\ \/ resp'.status = 403
             \/ resp'.status = 302 /\ resp'.location = U_forceChange

\* C21: write requests change the project store only for a session that is
\* logged in and not flagged as using the default password; a request
\* without login is answered 401 or redirected to the login page, one of a
\* flagged session 403 or redirected to the settings page, the store
\* unchanged; and a flagged session stays flagged until a change-password
\* request of it succeeds or it logs in again with a stored password.
C21_WritesNeedChangedPassword ==
    [][/\ WritesGuarded
       /\ \A s \in SessionIds :
             (/\ sessions[s].usingDefaultPassword
              /\ sessions'[s].user # <<>>
              /\ ~sessions'[s].usingDefaultPassword) =>
                 ChangePasswordSucceeds(s) \/ LoginWithStoredPassword(s)]_vars

\* a write request of a session flagged as using the default password has
\* been answered 403
C21_Witness ==
    /\ req.kind \in WriteKinds
    /\ resp.kind = "rejected" /\ resp.status = 403
    /\ sessions[req.session].user = W_admin
    /\ sessions[req.session].usingDefaultPassword
    /\ IsDir(fs, ProjectsDir \o <<W_demo>>)

\* C21 as stated: only a successful change-password request of the session
\* ends the rejection of a session that logged in with the default password
C21_FlaggedUntilChangePassword ==
    [][/\ WritesGuarded
       /\ \A s \in SessionIds :
             (/\ sessions[s].usingDefaultPassword
              /\ sessions'[s].user # <<>>
              /\ ~sessions'[s].usingDefaultPassword) =>
                 ChangePasswordSucceeds(s)]_vars

(***************************************************************************)
(* SpecUsers: two clients log in and manage the users of config.json, the  *)
(* requests that await bcrypt.hash interleaving                            *)
(***************************************************************************)

MaxUserTasks == 1

UserNames == {W_admin, W_bob}
UserPasswords == {DefaultPassword, P_one}

NextUsers ==
    \/ Login(UserNames, UserPasswords)
    \/ Logout
    \/ ChangePasswordBegin(UserPasswords, MaxUserTasks)
    \/ ChangePasswordFinish
    \/ ListUsers
    \/ CreateUserBegin(UserNames, UserPasswords \cup {P_short}, MaxUserTasks)
    \/ CreateUserFinish
    \/ ResetPasswordBegin(UserNames, UserPasswords, MaxUserTasks)
    \/ ResetPasswordFinish
    \/ DeleteUser(UserNames)

SpecUsers == InitServer /\ [][NextUsers]_vars

(***************************************************************************)
(* SpecRace: the admin sends user-management requests that overlap at      *)
(* their await of bcrypt.hash                                              *)
(***************************************************************************)

MaxRaceTasks == 2

NextRace ==
    \/ Login({W_admin}, {DefaultPassword})
    \/ ChangePasswordBegin({DefaultPassword, P_one}, MaxRaceTasks)
    \/ ChangePasswordFinish
    \/ CreateUserBegin({W_bob}, {P_one}, MaxRaceTasks)
    \/ CreateUserFinish
    \/ ResetPasswordBegin({W_bob}, {P_two}, MaxRaceTasks)
    \/ ResetPasswordFinish
    \/ DeleteUser({W_bob})

SpecRace == InitServer /\ [][NextRace]_vars

(***************************************************************************)
(* C22: the user routes are the admin's                                    *)
(***************************************************************************)

UserRouteKinds == {"listUsers", "createUser", "resetPassword", "deleteUser"}

\* the step is the arrival of a request at one of the user routes
UserRouteStep ==
    /\ req'.kind \in UserRouteKinds
    /\ Len(tasks') >= Len(tasks)
    /\ sessions' = sessions

\* the usernames of the stored users
StoredNames(us) == {us[i].username : i \in 1..Len(us)}

\* a user route acts only for the admin, and a delete spares the admin
AdminOnly ==
    /\ (UserRouteStep /\ sessions[req'.session].user \notin {<<>>, W_admin}) =>
          /\ resp' = AdminRequired
          /\ users' = users /\ tasks' = tasks
    /\ (UserRouteStep /\ sessions[req'.session].user = W_admin) =>
          resp'.kind # "rejected"
    /\ (UserRouteStep /\ req'.kind = "deleteUser" /\ W_admin \in StoredNames(users)) =>
          W_admin \in StoredNames(users')

\* C22: the user routes act only for a session whose username is admin; a
\* session logged in as another user is answered 403, a request without
\* login 401 or a redirect to the login page, and in both cases the stored
\* users are unchanged; no delete-user request removes the admin.
C22_UserRoutesAdminOnly ==
    [][/\ AdminOnly
       /\ (UserRouteStep /\ sessions[req'.session].user = <<>>) =>
             /\ resp'.kind = "rejected"
             /\ \/ resp'.status = 401
                \/ resp'.status = 302 /\ resp'.location = U_login
             /\ users' = users /\ tasks' = tasks]_vars

\* bob, a stored user, has been refused the creation of a user
C22_Witness ==
    /\ req.kind = "createUser"
    /\ resp = AdminRequired
    /\ sessions[req.session].user = W_bob
    /\ W_bob \in StoredNames(users)

\* C22 as stated: every session but the admin's is answered 403
C22_OthersGet403 ==
    [][/\ AdminOnly
       /\ (UserRouteStep /\ sessions[req'.session].user = <<>>) =>
             /\ resp' = AdminRequired
             /\ users' = users /\ tasks' = tasks]_vars

(***************************************************************************)
(* C29: the default password once a password is stored                     *)
(***************************************************************************)

\* username has a stored password, which is not the default password
HasOwnPassword(us, username) ==
    /\ FindUser(us, username) > 0
    /\ ~Compare(DefaultPassword, us[FindUser(us, username)].password)

\* C29: once a user has a stored password other than the default one, a
\* login as that user with the default password is answered 401, and so is
\* a change-password of that user with the default password as
\* currentPassword.
C29_DefaultPasswordRejected ==
    [][/\ (/\ req'.kind = "login" /\ resp'.kind = "login" /\ tasks' = tasks
           /\ HasOwnPassword(users, req'.username)
           /\ req'.password = DefaultPassword) => resp'.status = 401
       /\ (/\ req'.kind = "changePassword" /\ Len(tasks') >= Len(tasks)
           /\ sessions' = sessions
           /\ HasOwnPassword(users, sessions[req'.session].user)
           /\ req'.currentPassword = DefaultPassword
           /\ req'.newPassword = P_one) =>
              resp'.kind = "changePassword" /\ resp'.status = 401]_vars

(***************************************************************************)
(* C28: acknowledged writes to the user list under interleaving            *)
(***************************************************************************)

\* C28: every stored user is the outcome of an acknowledged write, so the
\* save that ends a create-user, reset-password or change-password request
\* keeps the entry of every user but the one the request is about, stores
\* the password it acknowledges, and never leaves two entries with one
\* username.
C28_AcknowledgedWritesDurable ==
    [][Len(tasks') < Len(tasks) =>
          /\ \A i \in 1..Len(users) :
                users[i].username # resp'.username =>
                    \E j \in 1..Len(users') : users'[j] = users[i]
          /\ \E j \in 1..Len(users') :
                /\ users'[j].username = resp'.username
                /\ Compare(resp'.password, users'[j].password)
          /\ Cardinality(StoredNames(users')) = Len(users')]_vars

(***************************************************************************)
(* The file view (GET /files/api/projects/:name/file?path=...)             *)
(***************************************************************************)

\* a path as the string path.join returns
PathString(p) == <<"/">> \o JoinWith(p, <<"/">>)

\* the handler: name is req.params.name, filePath req.query.path
FileViewHandler(f, name, filePath) ==
    IF filePath = <<>>
    THEN [kind |-> "file", status |-> 400, fullPath |-> <<>>]
    ELSE
    LET projectPath == PathJoin(ProjectsDir, name)
        fullPath == PathJoinAll(projectPath, SplitOn(filePath, "/"))
    IN  IF ~StartsWith(PathString(fullPath),
                       PathString(projectPath))
        THEN [kind |-> "file", status |-> 403, fullPath |-> fullPath]
        ELSE IF ~Exists(f, fullPath)
        THEN [kind |-> "file", status |-> 404, fullPath |-> fullPath]
        ELSE IF IsDir(f, fullPath)
        THEN [kind |-> "file", status |-> 400, fullPath |-> fullPath]
        ELSE [kind |-> "file", status |-> 200, fullPath |-> fullPath,
              content |-> f.files[fullPath]]

FileView(names, paths) ==
    \E name \in names, filePath \in paths :
        /\ req' = [kind |-> "file", name |-> name, path |-> filePath]
        /\ resp' = FileViewHandler(fs, name, filePath)
        /\ UNCHANGED <<fs, now, tasks, srcTree, entryRev, ret, sessions, users>>

(***************************************************************************)
(* SpecPaths: requests whose names and paths point out of a project        *)
(***************************************************************************)

MaxPathProjects == 2

N_demo1 == <<"d", "e", "m", "o", "-", "1">>
W_up == <<".", ".">>
W_here == <<".">>

PathUploads ==
    UploadRequests({<<N_demoZip, <<>> >>}, {T_bare, T_plain}, {NoFail})

PathSegments ==
    {<<N_com, a, W_defaultVersion, n>> :
        a \in {W_demo, N_demo1, N_lib, W_up, W_here, <<>>, <<"d", "e", " ", "m", "o">>},
        n \in {N_xjar, N_xpom, N_xsha1, N_ftxt, N_config, W_metadataXml}}

ViewNames == {W_demo, N_demo1, N_lib, W_up, W_here}

ViewPaths ==
    {<<>>, <<"f", ".", "t", "x", "t">>, <<"s", "r", "c", "/", "m", "a", "i", "n", "/", "F", "o", "o", ".", "j", "a", "v", "a">>, <<"s", "r", "c">>, <<".", ".", "/", "d", "e", "m", "o", "-", "1", "/", "f", ".", "t", "x", "t">>,
     <<".", ".", "/", "d", "e", "m", "o", "/", "f", ".", "t", "x", "t">>, <<".", ".", "/", ".", ".", "/", "c", "o", "n", "f", "i", "g", ".", "j", "s", "o", "n">>, <<"c", "o", "n", "f", "i", "g", ".", "j", "s", "o", "n">>,
     <<"d", "e", "m", "o", "/", "f", ".", "t", "x", "t">>, <<"s", "r", "c", "/", ".", ".", "/", "f", ".", "t", "x", "t">>}

NextPaths ==
    \/ Upload(PathUploads, MaxPathProjects)
    \/ Delete
    \/ Request(PathSegments)
    \/ FileView(ViewNames, ViewPaths)

SpecPaths == InitServer /\ [][NextPaths]_vars

(***************************************************************************)
(* C23, C24: what a name or a path can reach                               *)
(***************************************************************************)

\* p is directory d or lies below it
Within(p, d) == p = d \/ IsUnder(p, d)

\* C23: a repository request for project content (archive, POM, direct
\* file, checksum) is answered 404 unless its artifactId is the name of an
\* entry of the projects directory, and what it packs or sends lies in the
\* directory of that project.
C23_OnlyProjectContent ==
    (resp.kind = "repo" /\ resp.parsed /\ resp.coord.filename # W_metadataXml) =>
        IF resp.coord.artifactId \notin ProjectNames(fs)
        THEN resp.out.status = 404
        ELSE /\ (resp.out.branch = "archive" /\ resp.out.status = 200) =>
                   Within(resp.out.basePath, ProjectsDir \o <<resp.coord.artifactId>>)
             /\ resp.out.branch \in {"direct", "source"} =>
                   IsUnder(resp.out.path, ProjectsDir \o <<resp.coord.artifactId>>)

\* the file view resolved name and path to a location in the directory of
\* the project called name
ResolvedInside ==
    /\ req.name \notin {W_up, W_here}
    /\ Within(resp.fullPath, ProjectsDir \o <<req.name>>)

\* C24: the file view returns content only of a file inside the directory
\* of the named project, and answers 403 whenever name and path resolve to
\* a location outside it.
C24_FileViewStaysInside ==
    (resp.kind = "file" /\ req.kind = "file" /\ req.path # <<>>) =>
        /\ resp.status = 200 => ResolvedInside
        /\ ~ResolvedInside => resp.status = 403

(***************************************************************************)
(* C30: the archive and the coordinate                                     *)
(***************************************************************************)

N_org == <<"o", "r", "g">>
W_v999 == <<"9", ".", "9", ".", "9">>
N_otherZip == <<"o", "t", "h", "e", "r", "-", "2", ".", "z", "i", "p">>

ArchiveVersions == {W_defaultVersion, W_v123, W_v999, <<>>}
ArchiveFilenames == {N_xjar, N_xzip, N_demoJar, N_otherZip}

\* the answers to the archive requests for artifactId under the groupIds
\* `groups`, every version and every filename
ArchiveAnswers(groups, artifactId) ==
    {Dispatch(fs, PathOf(g \o <<artifactId, v, n>>), entryRev).out :
        g \in groups, v \in ArchiveVersions, n \in ArchiveFilenames}

\* all these answers have the status and the entries of the one given
SameArchive(groups) ==
    (resp.kind = "repo" /\ resp.parsed /\ resp.out.branch = "archive") =>
        \A o \in ArchiveAnswers(groups, resp.coord.artifactId) :
            /\ "branch" \in DOMAIN o /\ o.branch = "archive"
            /\ o.status = resp.out.status
            /\ o.status = 200 => o.zip = resp.out.zip

\* C30: the archive answered to a .jar/.zip request that the dispatcher
\* parses depends on the artifactId and the project alone: requests that
\* differ in the groupId segments (the first not being api), in the version
\* segment or in the filename stem get the same status and the same
\* entries, whether or not the version is the stored one.
C30_ArchiveByArtifactId ==
    SameArchive({<<N_com>>, <<N_org>>, <<N_com, N_example>>, <<N_com, N_api>>})

\* the archive of a project stored as version 1.2.3 was answered to a
\* request for version 1.0.0
C30_Witness ==
    /\ resp.kind = "repo" /\ resp.parsed
    /\ resp.out.branch = "archive" /\ resp.out.status = 200
    /\ resp.out.zip # <<>>
    /\ resp.coord.version = W_defaultVersion
    /\ StoredMeta(fs, resp.coord.artifactId).version = W_v123

\* C30 as stated: for any groupId segments
C30_AnyGroupId ==
    SameArchive({<<N_com>>, <<N_org>>, <<N_com, N_example>>, <<N_api>>,
                 <<N_api, N_com>>})

(***************************************************************************)
(* C25: a create that fails                                                *)
(***************************************************************************)

\* C25: an upload or clone answered with a failure leaves the projects
\* directory as it was, so the listing of the projects after it is the
\* listing before it.
C25_FailedCreateLeavesNothing ==
    [][(req'.kind \in {"upload", "clone"} /\ resp'.kind = req'.kind
        /\ resp'.status = 500) =>
          /\ ProjectNames(fs') = ProjectNames(fs)
          /\ ListProjects(fs', entryRev) = ListProjects(fs, entryRev)]_vars

(***************************************************************************)
(* C26: the stored source root                                             *)
(***************************************************************************)

\* C26: the source root a project's sidecar names, if it names one, is an
\* existing directory inside the project directory.
C26_SourceRootExists ==
    \A name \in ProjectNames(fs) :
        LET stored == StoredMeta(fs, name).srcMainPath
        IN  stored # <<>> =>
               /\ IsDir(fs, JoinStr(ProjectsDir \o <<name>>, stored))
               /\ IsUnder(JoinStr(ProjectsDir \o <<name>>, stored),
                          ProjectsDir \o <<name>>)

(***************************************************************************)
(* SpecUpdate: an update is suspended while it downloads the archive and   *)
(* while it waits for the tag list; repository requests are served         *)
(* meanwhile                                                               *)
(***************************************************************************)

MaxUpdateTasks == 1
MaxUpdateProjects == 1

UpdateClones ==
    CloneRequests({W_demoUrl}, {<<>>}, {T_plain, T_bare}, {NoTags}, {NoFail})

AsyncUpdates ==
    UpdateRequests({T_plain, T_bare},
                   {NoTags, Tags(<< <<"v", "2", ".", "0">> >>)},
                   {NoFail, FailAt("download", 0)})

UpdateSegments ==
    {<<N_com, W_demo, W_defaultVersion, n>> : n \in {N_xjar, N_xzip, N_xpom, N_ftxt}}

NoUpdateLocal ==
    [name |-> <<>>, meta |-> NullMeta, zip |-> EmptyTree, sourceDir |-> <<>>,
     srcMainPath |-> <<>>]

\* POST /api/projects/:name/update up to its first await: the checks answer
\* the request, or the download starts.  The task keeps the sidecar the
\* handler has read; before is the filesystem the update started on, kept
\* for the properties and read by no action.
UpdateBegin(requests, max) ==
    \E name \in RequestNames(fs), in \in requests :
        /\ Len(tasks) < max
        /\ req' = [in EXCEPT !.kind = "update"] @@ [name |-> name]
        /\ IF UpdateCheck(fs, name).resp.status # 0
           THEN resp' = UpdateCheck(fs, name).resp /\ tasks' = tasks
           ELSE /\ tasks' = Append(tasks, [kind |-> "update", pc |-> "download",
                                           in |-> in, name |-> name,
                                           meta |-> UpdateCheck(fs, name).meta,
                                           local |-> NoUpdateLocal,
                                           before |-> fs])
                /\ resp' = resp
        /\ UNCHANGED <<fs, now, srcTree, entryRev, ret, sessions, users>>

\* the download has failed: the request is answered 500
UpdateDownloadFailed ==
    \E i \in DOMAIN tasks :
        /\ tasks[i].kind = "update" /\ tasks[i].pc = "download"
        /\ tasks[i].in.failAt = "download"
        /\ resp' = UpdateResp(500, tasks[i].name)
        /\ tasks' = RemoveAt(tasks, i)
        /\ UNCHANGED <<fs, now, req, srcTree, entryRev, ret, sessions, users>>

\* the effect of the replacement: it failed and the request is answered, or
\* the handler awaits the tag list
Replaced(i, a) ==
    /\ fs' = a.fs
    /\ IF a.failed
       THEN resp' = UpdateResp(500, tasks[i].name) /\ tasks' = RemoveAt(tasks, i)
       ELSE /\ resp' = resp
            /\ tasks' = [tasks EXCEPT ![i].pc = "tags", ![i].local = a.local]

\* the download has ended: the handler extracts, clears the project
\* directory and copies, up to the await of the tags
UpdateDownloaded ==
    \E i \in DOMAIN tasks :
        /\ tasks[i].kind = "update" /\ tasks[i].pc = "download"
        /\ tasks[i].in.failAt # "download"
        /\ Replaced(i, UpdateReplace(fs, now, tasks[i].name, tasks[i].meta,
                                     tasks[i].in, entryRev))
        /\ UNCHANGED <<now, req, srcTree, entryRev, ret, sessions, users>>

\* the tag list has been answered: the handler writes the sidecar and
\* responds
UpdateTagsAnswered ==
    \E i \in DOMAIN tasks :
        /\ tasks[i].kind = "update" /\ tasks[i].pc = "tags"
        /\ Answered(UpdateFinish(fs, now, tasks[i].local, tasks[i].in.tags,
                                 tasks[i].in.failAt = "write", entryRev))
        /\ tasks' = RemoveAt(tasks, i)
        /\ UNCHANGED <<now, req, srcTree, entryRev, ret, sessions, users>>

NextUpdate ==
    \/ Clone(UpdateClones, MaxUpdateProjects)
    \/ UpdateBegin(AsyncUpdates, MaxUpdateTasks)
    \/ UpdateDownloadFailed
    \/ UpdateDownloaded
    \/ UpdateTagsAnswered
    \/ Request(UpdateSegments)

SpecUpdate == InitServer /\ [][NextUpdate]_vars

(***************************************************************************)
(* C27: an archive request while the project is updated                    *)
(***************************************************************************)

\* the project of an archive request just answered is being updated
UpdatedMeanwhile(i) ==
    /\ tasks[i].kind = "update"
    /\ Len(req'.segs) >= 3
    /\ req'.segs[Len(req'.segs) - 2] = tasks[i].name
    /\ IsArchiveName(req'.segs[Len(req'.segs)])

\* the answer the request gets once the update suspended at the tag list
\* has written its sidecar
AfterUpdate(i, reqPath) ==
    Dispatch(UpdateFinish(fs, now, tasks[i].local, tasks[i].in.tags,
                          tasks[i].in.failAt = "write", entryRev).fs,
             reqPath, entryRev)

\* C27: an archive request answered while an update of its project is
\* suspended gets the answer it would have got before the update began, or
\* (once the update has replaced the content) the answer it gets when the
\* update has finished.
C27_ArchiveBeforeOrAfterUpdate ==
    [][(req'.kind = "repo" /\ resp'.kind = "repo" /\ fs' = fs /\ tasks' = tasks
        /\ resp' = Dispatch(fs, req'.path, entryRev)) =>
          \A i \in DOMAIN tasks :
              UpdatedMeanwhile(i) =>
                  \/ resp' = Dispatch(tasks[i].before, req'.path, entryRev)
                  \/ /\ tasks[i].pc = "tags"
                     /\ resp' = AfterUpdate(i, req'.path)]_vars

====
